---- MODULE Spec2Model ----
(***************************************************************************)
(* Experience Cards (app.py): the retrieval engine, the content safety     *)
(* gate, the two card stores and the request handlers, as a state machine. *)
(*                                                                         *)
(* Texts are strings; a character is a string of length 1.  Scores are     *)
(* integers in hundredths (1800 stands for 18.00), which is the precision  *)
(* round(score, 2) leaves in the code.                                     *)
(***************************************************************************)
EXTENDS Integers, Sequences, FiniteSets, TLC

(***************************************************************************)
(* Characters and basic string operations (Python str methods and the      *)
(* regular-expression character classes the code uses).                    *)
(***************************************************************************)
LowerAlphabet == "abcdefghijklmnopqrstuvwxyz"
UpperAlphabet == "ABCDEFGHIJKLMNOPQRSTUVWXYZ"
DigitAlphabet == "0123456789"

At(s, i) == SubSeq(s, i, i)

\* s[i-1:j] in Python: a slice stops at the end of the string
Slice(s, i, j) == SubSeq(s, i, IF j > Len(s) THEN Len(s) ELSE j)

CharsOf(s) == {At(s, i) : i \in 1..Len(s)}

LowerLetters == CharsOf(LowerAlphabet)
UpperLetters == CharsOf(UpperAlphabet)
Digits == CharsOf(DigitAlphabet)
Letters == LowerLetters \cup UpperLetters

\* \s
IsSpace(c) == c \in {" ", "\t", "\n", "\r", "\f"}
\* \w
IsWordChar(c) == c \in Letters \cup Digits \cup {"_"}
\* [a-z0-9]
\* a class that also takes the hyphen and the underscore
IsWordLike(c) == c \in LowerLetters \cup Digits \cup {"-", "_"}

IsLowerAlnum(c) == c \in LowerLetters \cup Digits

LowerTable ==
  [c \in UpperLetters |->
     At(LowerAlphabet, CHOOSE i \in 1..Len(UpperAlphabet) : At(UpperAlphabet, i) = c)]

lower_char(c) == IF c \in UpperLetters THEN LowerTable[c] ELSE c

\* str.lower()
RECURSIVE str_lower(_)
str_lower(s) ==
  IF Len(s) = 0 THEN ""
  ELSE IF Len(s) = 1 THEN lower_char(s)
  ELSE LET h == Len(s) \div 2
       IN  str_lower(SubSeq(s, 1, h)) \o str_lower(SubSeq(s, h + 1, Len(s)))

\* text.startswith(sub)
StartsWith(text, sub) == Len(sub) <= Len(text) /\ SubSeq(text, 1, Len(sub)) = sub

\* sub in text
Contains(text, sub) ==
  \E i \in 1..(Len(text) - Len(sub) + 1) : SubSeq(text, i, i + Len(sub) - 1) = sub

\* text.endswith(suffix)
EndsWith(text, suffix) ==
  /\ Len(suffix) <= Len(text)
  /\ SubSeq(text, Len(text) - Len(suffix) + 1, Len(text)) = suffix

\* \b at the position between character k and character k + 1 (k in 0..Len)
WordAt(text, k) == k >= 1 /\ k <= Len(text) /\ IsWordChar(At(text, k))
Boundary(text, k) == WordAt(text, k) # WordAt(text, k + 1)

\* every character of text from position i to position j is one of class
AllIn(text, i, j, class) == \A k \in i..j : k <= Len(text) /\ At(text, k) \in class

Range(seq) == {seq[i] : i \in DOMAIN seq}

\* sum(...) over a sequence of numbers, by halves
RECURSIVE Sum(_)
Sum(nums) ==
  IF Len(nums) = 0 THEN 0
  ELSE IF Len(nums) = 1 THEN nums[1]
  ELSE LET h == Len(nums) \div 2
       IN  Sum(SubSeq(nums, 1, h)) + Sum(SubSeq(nums, h + 1, Len(nums)))

RECURSIVE JoinWith(_, _)
JoinWith(strs, sep) ==
  IF Len(strs) = 0 THEN ""
  ELSE IF Len(strs) = 1 THEN strs[1]
  ELSE strs[1] \o sep \o JoinWith(Tail(strs), sep)

(***************************************************************************)
(* normalize: strip, then every whitespace run becomes one space.          *)
(***************************************************************************)
\* re.sub(r"\s+", " ", text), by halves
RECURSIVE squeeze(_)
squeeze(s) ==
  IF Len(s) = 0 THEN ""
  ELSE IF Len(s) = 1 THEN (IF IsSpace(s) THEN " " ELSE s)
  ELSE LET h == Len(s) \div 2
           a == squeeze(SubSeq(s, 1, h))
           b == squeeze(SubSeq(s, h + 1, Len(s)))
       IN  IF At(a, Len(a)) = " " /\ At(b, 1) = " "
           THEN a \o SubSeq(b, 2, Len(b))
           ELSE a \o b

normalize(text) ==
  LET q == squeeze(text)
      a == IF Len(q) > 0 /\ At(q, 1) = " " THEN 2 ELSE 1
      b == IF Len(q) > 0 /\ At(q, Len(q)) = " " THEN Len(q) - 1 ELSE Len(q)
  IN  IF a > b THEN "" ELSE SubSeq(q, a, b)

(***************************************************************************)
(* tokenize                                                                *)
(***************************************************************************)
\* re.split(r"[^a-z0-9]+", text), by halves: the maximal runs of [a-z0-9] in
\* order, with empty pieces where separators meet the ends or each other
RECURSIVE split_alnum(_)
split_alnum(s) ==
  IF Len(s) = 0 THEN <<"">>
  ELSE IF Len(s) = 1 THEN (IF IsLowerAlnum(s) THEN <<s>> ELSE <<"", "">>)
  ELSE LET h == Len(s) \div 2
           a == split_alnum(SubSeq(s, 1, h))
           b == split_alnum(SubSeq(s, h + 1, Len(s)))
       IN  SubSeq(a, 1, Len(a) - 1) \o <<a[Len(a)] \o b[1]>> \o Tail(b)

\* a filter that keeps every piece that is not empty
IsPiece(tok) == Len(tok) >= 1

IsToken(tok) == Len(tok) >= 2

tokenize(text) == SelectSeq(split_alnum(str_lower(normalize(text))), IsToken)

\* the elements of seq that are not in seen, in order, by halves
RECURSIVE Unseen(_, _)
Unseen(seq, seen) ==
  IF Len(seq) = 0 THEN <<>>
  ELSE IF Len(seq) = 1 THEN (IF seq[1] \in seen THEN <<>> ELSE seq)
  ELSE LET h == Len(seq) \div 2
       IN  Unseen(SubSeq(seq, 1, h), seen) \o Unseen(SubSeq(seq, h + 1, Len(seq)), seen)

\* the distinct elements of a sequence, in the order they first occur, by halves
RECURSIVE Distinct(_)
Distinct(seq) ==
  IF Len(seq) <= 1 THEN seq
  ELSE LET h == Len(seq) \div 2
           a == Distinct(SubSeq(seq, 1, h))
           b == Distinct(SubSeq(seq, h + 1, Len(seq)))
       IN  a \o Unseen(b, Range(a))

\* how often each of keys occurs in tokens, by halves
RECURSIVE Occurrences(_, _)
Occurrences(keys, tokens) ==
  IF Len(keys) = 0 THEN <<>>
  ELSE IF Len(keys) = 1
       THEN <<Cardinality({i \in DOMAIN tokens : tokens[i] = keys[1]})>>
  ELSE LET h == Len(keys) \div 2
       IN  Occurrences(SubSeq(keys, 1, h), tokens)
             \o Occurrences(SubSeq(keys, h + 1, Len(keys)), tokens)

\* collections.Counter(tokens): the keys in the order of their first
\* occurrence (the order items() and values() go through them), and the
\* count of keys[i] in counts[i]
Counter(tokens) ==
  LET keys == Distinct(tokens)
  IN  [keys |-> keys, counts |-> Occurrences(keys, tokens)]

(***************************************************************************)
(* Guardrails (config)                                                     *)
(***************************************************************************)
BANNED_KEYWORDS ==
  << "kill", "suicide", "bomb", "terror", "nazi",
     "send me your otp", "share your otp", "give me your password", "bank password",
     "one-time passcode", "otp code",
     "nudes", "sex" >>

ALLOWED_DOMAINS ==
  << "canada.ca", "fcac-acfc.gc.ca", "cba.ca", "consumerfinance.gov",
     "ftc.gov", "usa.gov", "fca.org.uk" >>

MIN_EXPERIENCE_STRUCTURE_SCORE == 4

\* len(c) >= 120 in structure_score
MIN_CONTENT_LEN == 120

\* len(re.split(r"[.!?]+", c)) >= 3 in structure_score
MIN_SENTENCE_PIECES == 3

(***************************************************************************)
(* Safety utilities                                                        *)
(***************************************************************************)
\* the positions where word w stands between two \b, case-insensitively:
\* the matches of \b(w)\b under re.IGNORECASE
WordOccurrences(low, w) ==
  {p \in 1..(Len(low) - Len(w) + 1) :
     /\ SubSeq(low, p, p + Len(w) - 1) = w
     /\ Boundary(low, p - 1)
     /\ Boundary(low, p + Len(w) - 1)}

\* re.search(r"\b(firsts)\b.*\b(seconds)\b", c, re.IGNORECASE): c is
\* normalized and holds no newline, so .* spans any gap
SearchPair(low, firsts, seconds) ==
  \E w1 \in firsts : \E p \in WordOccurrences(low, w1) :
    \E w2 \in seconds : \E q \in WordOccurrences(low, w2) : q >= p + Len(w1)

SearchWord(low, words) == \E w \in words : WordOccurrences(low, w) # {}

IsSentenceEnd(c) == c \in {".", "!", "?"}

\* len(re.split(r"[.!?]+", c)): one more than the number of maximal runs
SentencePieces(c) ==
  Cardinality({i \in 1..Len(c) :
     IsSentenceEnd(At(c, i)) /\ (i = 1 \/ ~IsSentenceEnd(At(c, i - 1)))}) + 1

structure_score(content) ==
  LET c == normalize(content)
      low == str_lower(c)
      s1 == IF Len(c) >= MIN_CONTENT_LEN THEN 1 ELSE 0
      s2 == IF SearchPair(low, {"i", "we"},
                          {"was", "were", "had", "noticed", "experienced"})
            THEN 1 ELSE 0
      s3 == IF SearchPair(low, {"i", "we"},
                          {"tried", "did", "checked", "called", "waited", "updated", "reset"})
            THEN 1 ELSE 0
      s4 == IF SearchWord(low, {"resolved", "fixed", "worked", "failed", "eventually",
                                "later", "outcome", "result"})
            THEN 1 ELSE 0
      s5 == IF SentencePieces(c) >= MIN_SENTENCE_PIECES THEN 1 ELSE 0
  IN  s1 + s2 + s3 + s4 + s5

contains_banned_keywords(text) ==
  LET low == str_lower(normalize(text))
  IN  \E i \in DOMAIN BANNED_KEYWORDS : Contains(low, str_lower(BANNED_KEYWORDS[i]))

\* https?:// followed by at least one non-space character, at position i
UrlStartsAt(text, i) ==
  LET n == IF str_lower(Slice(text, i, i + 6)) = "http://" THEN 7
           ELSE IF str_lower(Slice(text, i, i + 7)) = "https://" THEN 8
           ELSE 0
  IN  n > 0 /\ i + n <= Len(text) /\ ~IsSpace(At(text, i + n))

\* the last position of the run of non-space characters that holds position i
ChunkEnd(text, i) ==
  CHOOSE e \in i..Len(text) :
    /\ \A k \in i..e : ~IsSpace(At(text, k))
    /\ (e = Len(text) \/ IsSpace(At(text, e + 1)))

\* URL_RE.findall(text): [^\s]+ is greedy, so a match runs to the end of its
\* run of non-space characters and the next search starts after it
RECURSIVE find_urls(_, _)
find_urls(text, from) ==
  LET starts == {i \in from..Len(text) : UrlStartsAt(text, i)}
  IN  IF starts = {} THEN <<>>
      ELSE LET i == CHOOSE a \in starts : \A b \in starts : a <= b
               e == ChunkEnd(text, i)
           IN  <<SubSeq(text, i, e)>> \o find_urls(text, e + 1)

extract_urls(text) == find_urls(text, 1)

\* str.split(":")[0]
BeforeColon(s) ==
  LET cut == {i \in 1..Len(s) : At(s, i) = ":"}
  IN  IF cut = {} THEN s
      ELSE SubSeq(s, 1, (CHOOSE a \in cut : \A b \in cut : a <= b) - 1)

domain_allowed(url) ==
  LET u == normalize(url)
      n == IF str_lower(Slice(u, 1, 7)) = "http://" THEN 7
           ELSE IF str_lower(Slice(u, 1, 8)) = "https://" THEN 8
           ELSE 0
      rest == SubSeq(u, n + 1, Len(u))
      slash == {i \in 1..Len(rest) : At(rest, i) = "/"}
      group1 == IF slash = {} THEN rest
                ELSE SubSeq(rest, 1, (CHOOSE a \in slash : \A b \in slash : a <= b) - 1)
      host == BeforeColon(str_lower(group1))
  IN  IF n = 0 \/ Len(group1) = 0 THEN FALSE
      ELSE \E i \in DOMAIN ALLOWED_DOMAINS :
             host = ALLOWED_DOMAINS[i] \/ EndsWith(host, "." \o ALLOWED_DOMAINS[i])

\* the card gate with its three checks in the opposite order
structure_first(title, category, tags, content) ==
  LET blob == JoinWith(<<title, category, tags, content>>, " ")
      urls == extract_urls(content)
  IN  IF structure_score(content) < MIN_EXPERIENCE_STRUCTURE_SCORE
      THEN [ok |-> FALSE, reason |-> "low_structure_score"]
      ELSE IF \E i \in DOMAIN urls : ~domain_allowed(urls[i])
      THEN [ok |-> FALSE, reason |-> "disallowed_domain"]
      ELSE IF contains_banned_keywords(blob)
      THEN [ok |-> FALSE, reason |-> "banned_keywords"]
      ELSE [ok |-> TRUE, reason |-> "ok"]

safety_check_experience(title, category, tags, content) ==
  LET blob == JoinWith(<<title, category, tags, content>>, " ")
      urls == extract_urls(content)
  IN  IF contains_banned_keywords(blob)
      THEN [ok |-> FALSE, reason |-> "banned_keywords"]
      ELSE IF \E i \in DOMAIN urls : ~domain_allowed(urls[i])
      THEN [ok |-> FALSE, reason |-> "disallowed_domain"]
      ELSE IF structure_score(content) < MIN_EXPERIENCE_STRUCTURE_SCORE
      THEN [ok |-> FALSE, reason |-> "low_structure_score"]
      ELSE [ok |-> TRUE, reason |-> "ok"]

\* re.search(r"\b\d{11}\b", question)
HasIdNumber(question) ==
  \E i \in 1..(Len(question) - 10) :
    /\ AllIn(question, i, i + 10, Digits)
    /\ Boundary(question, i - 1)
    /\ Boundary(question, i + 10)

IsPhoneSep(c) == c \in {"-", "."} \/ IsSpace(c)

\* re.search(r"\b\d{3}[-.\s]?\d{3}[-.\s]?\d{4}\b", question)
HasPhone(question) ==
  \E i \in 1..Len(question) : \E g1 \in {0, 1} : \E g2 \in {0, 1} :
    LET b == i + 3 + g1
        c == b + 3 + g2
    IN  /\ c + 3 <= Len(question)
        /\ Boundary(question, i - 1)
        /\ AllIn(question, i, i + 2, Digits)
        /\ (g1 = 1 => IsPhoneSep(At(question, i + 3)))
        /\ AllIn(question, b, b + 2, Digits)
        /\ (g2 = 1 => IsPhoneSep(At(question, b + 3)))
        /\ AllIn(question, c, c + 3, Digits)
        /\ Boundary(question, c + 3)

\* [A-Z0-9._%+-] and [A-Z0-9.-] under re.IGNORECASE
EmailLocal == Letters \cup Digits \cup {".", "_", "%", "+", "-"}
EmailDomain == Letters \cup Digits \cup {".", "-"}

\* re.search(r"\b[A-Z0-9._%+-]+@[A-Z0-9.-]+\.[A-Z]{2,}\b", question, re.IGNORECASE)
HasEmail(question) ==
  \E at \in 2..Len(question) :
    /\ At(question, at) = "@"
    /\ \E s \in 1..(at - 1) :
         AllIn(question, s, at - 1, EmailLocal) /\ Boundary(question, s - 1)
    /\ \E dot \in (at + 2)..Len(question) : \E e \in (dot + 2)..Len(question) :
         /\ At(question, dot) = "."
         /\ AllIn(question, at + 1, dot - 1, EmailDomain)
         /\ AllIn(question, dot + 1, e, Letters)
         /\ Boundary(question, e)

\* the question gate with the URL check moved behind the three patterns
patterns_first(question) ==
  IF contains_banned_keywords(question)
  THEN [ok |-> FALSE, reason |-> "banned_keywords"]
  ELSE IF HasIdNumber(question)
  THEN [ok |-> FALSE, reason |-> "possible_id_number"]
  ELSE IF HasPhone(question)
  THEN [ok |-> FALSE, reason |-> "possible_phone"]
  ELSE IF HasEmail(question)
  THEN [ok |-> FALSE, reason |-> "possible_email"]
  ELSE IF Len(extract_urls(question)) > 0
  THEN [ok |-> FALSE, reason |-> "url_not_allowed"]
  ELSE [ok |-> TRUE, reason |-> "ok"]

\* the question gate with the e-mail pattern tried before the phone pattern
email_first(question) ==
  IF contains_banned_keywords(question)
  THEN [ok |-> FALSE, reason |-> "banned_keywords"]
  ELSE IF Len(extract_urls(question)) > 0
  THEN [ok |-> FALSE, reason |-> "url_not_allowed"]
  ELSE IF HasIdNumber(question)
  THEN [ok |-> FALSE, reason |-> "possible_id_number"]
  ELSE IF HasEmail(question)
  THEN [ok |-> FALSE, reason |-> "possible_email"]
  ELSE IF HasPhone(question)
  THEN [ok |-> FALSE, reason |-> "possible_phone"]
  ELSE [ok |-> TRUE, reason |-> "ok"]

safety_check_question(question) ==
  IF contains_banned_keywords(question)
  THEN [ok |-> FALSE, reason |-> "banned_keywords"]
  ELSE IF Len(extract_urls(question)) > 0
  THEN [ok |-> FALSE, reason |-> "url_not_allowed"]
  ELSE IF HasIdNumber(question)
  THEN [ok |-> FALSE, reason |-> "possible_id_number"]
  ELSE IF HasPhone(question)
  THEN [ok |-> FALSE, reason |-> "possible_phone"]
  ELSE IF HasEmail(question)
  THEN [ok |-> FALSE, reason |-> "possible_email"]
  ELSE [ok |-> TRUE, reason |-> "ok"]

(***************************************************************************)
(* The two stores                                                          *)
(***************************************************************************)
APP_DB_PATH == "app.db"
DEMO_DB_PATH == "demo_only.db"

\* The curated cards of ensure_demo_db_seeded_only, in the order they are
\* inserted: 15 for Canada, then 15 for the US.  Three typographic characters
\* of the source (two apostrophes, one dash) are written in ASCII: each is one
\* character, no letter, digit or underscore, and part of no keyword.
seed_cards ==
  <<
  [title |-> "CA: Newcomer account opening at a branch",
   category |-> "Onboarding",
   tags |-> "newcomer,account,documents,branch,canada",
   content |-> "When I first arrived in Canada, I wanted to open a bank account and was unsure about the required documents. I brought my passport and immigration papers to a branch and explained my situation. The staff clarified which newcomer options were available and which documents were acceptable at that stage. Requirements can vary by institution, so asking directly helped me move forward quickly.",
   content_lang |-> "en"],
  [title |-> "CA: Can I open an account without a SIN yet?",
   category |-> "Onboarding",
   tags |-> "sin,identity,newcomer,requirements,canada",
   content |-> "I was confused about whether I needed a SIN to open a bank account. At the branch, I asked what was possible before my SIN was issued. The representative explained that some banks allow account opening without a SIN initially, sometimes with limitations. I was told I could update my profile later once my SIN became available.",
   content_lang |-> "en"],
  [title |-> "CA: No permanent address during onboarding",
   category |-> "Onboarding",
   tags |-> "address,newcomer,temporary,documents,canada",
   content |-> "When opening an account, I did not have a permanent address yet. I explained that I was in temporary housing and provided a temporary address for initial setup. The bank accepted it and advised me to update the address later. That allowed me to get started without waiting for permanent housing.",
   content_lang |-> "en"],
  [title |-> "CA: Mobile banking first-time secure setup",
   category |-> "Digital Access",
   tags |-> "mobile,security,2fa,password,canada",
   content |-> "When I started using mobile banking, I focused on secure setup. I enabled two-factor authentication, created a strong password, and installed the app only from the official store. I avoided public Wi-Fi for login and reviewed security settings in the app. These steps made me feel more confident using digital banking.",
   content_lang |-> "en"],
  [title |-> "CA: Forgot password and avoided lockout",
   category |-> "Digital Access",
   tags |-> "password,login,reset,lockout,canada",
   content |-> "After forgetting my password, I used the official reset flow in the app. I followed identity verification steps carefully and avoided repeated attempts that could trigger a lockout. After the reset, I confirmed I could log in successfully and updated any saved credentials on my device.",
   content_lang |-> "en"],
  [title |-> "CA: App language barriers and safe coping strategies",
   category |-> "Digital Access",
   tags |-> "language,accessibility,help,canada",
   content |-> "I struggled with English-only screens in a banking app. Instead of sharing passwords with others, I used built-in accessibility features and kept notes of key menu terms. When needed, I asked for guidance through official support channels. This helped me avoid risky shortcuts while still completing tasks.",
   content_lang |-> "en"],
  [title |-> "CA: Debit vs credit card as a newcomer",
   category |-> "Cards",
   tags |-> "debit,credit,credit_history,newcomer,canada",
   content |-> "I was unsure whether to use debit or apply for a credit card. I learned that debit is useful for everyday spending, while a credit card can help build credit history if used responsibly. I started with simple spending limits, paid balances on time, and monitored transactions regularly.",
   content_lang |-> "en"],
  [title |-> "CA: Card declined due to limits or fraud protection",
   category |-> "Cards",
   tags |-> "card,declined,limits,fraud_protection,canada",
   content |-> "My card was declined at a merchant, and I did not know why. I checked my daily limits and whether the bank had flagged the transaction for security. I verified the card status in the app and tried a smaller transaction later. The issue turned out to be a security hold, which cleared after confirmation through official channels.",
   content_lang |-> "en"],
  [title |-> "CA: Contactless tap payments safety basics",
   category |-> "Payments",
   tags |-> "contactless,tap,limits,security,canada",
   content |-> "I wondered whether tap payments were safe. I learned that contactless has transaction limits and that I can review settings and monitor transactions in the app. I kept notifications enabled and reported anything suspicious quickly. This made contactless payments feel safer and more manageable.",
   content_lang |-> "en"],
  [title |-> "CA: CRA phone call scam recognition",
   category |-> "Fraud/Scam",
   tags |-> "cra,scam,phone,phishing,canada",
   content |-> "I received a call claiming to be from the CRA and demanding immediate payment. I did not share any personal information and ended the call. I verified the situation using official government channels and confirmed it was a scam attempt. The key was to avoid reacting under pressure and to use only trusted contacts.",
   content_lang |-> "en"],
  [title |-> "CA: Email phishing pretending to be a bank",
   category |-> "Fraud/Scam",
   tags |-> "phishing,email,link,security,canada",
   content |-> "I got an email that looked like it was from my bank and asked me to click a link. I did not click it. Instead, I opened my banking app directly and checked for alerts, then used official support contacts to confirm. This helped me avoid phishing and keep my account secure.",
   content_lang |-> "en"],
  [title |-> "CA: Account frozen after suspicious activity",
   category |-> "Fraud/Scam",
   tags |-> "account,frozen,suspicious_activity,verification,canada",
   content |-> "My account access was restricted after unusual activity was detected. I followed the bank's official verification steps and confirmed recent transactions. After identity checks, access was restored. I learned that quick verification through official channels is the safest way to resolve a freeze.",
   content_lang |-> "en"],
  [title |-> "CA: Interac e-Transfer delayed or pending",
   category |-> "Transfers",
   tags |-> "interac,e-transfer,pending,delay,canada",
   content |-> "I sent an Interac e-Transfer and it did not arrive immediately. I checked the recipient details and whether the transfer was pending or on a security hold. I avoided sending duplicates and waited within the stated processing window. The transfer later completed, and I kept the reference details in case support was needed.",
   content_lang |-> "en"],
  [title |-> "CA: Overdraft confusion and avoiding fees",
   category |-> "Fees",
   tags |-> "overdraft,fees,negative_balance,avoid,canada",
   content |-> "I noticed my balance went negative and I was unsure what overdraft meant. I reviewed my account terms and learned how overdraft fees may apply. I adjusted alerts, monitored upcoming payments, and kept a buffer to avoid future surprises. Understanding the rules helped me prevent repeated fees.",
   content_lang |-> "en"],
  [title |-> "CA: Unexpected monthly account fee",
   category |-> "Fees",
   tags |-> "account_fee,monthly_fee,waiver,plan,canada",
   content |-> "I saw a monthly fee and did not expect it. I checked my account plan details and learned that fee waivers may depend on minimum balance or certain conditions. I compared account types and adjusted my plan to match my usage. This reduced unexpected charges going forward.",
   content_lang |-> "en"],
  [title |-> "US: Opening a bank account (ID and proof basics)",
   category |-> "Onboarding",
   tags |-> "account,opening,id,documents,usa",
   content |-> "When opening a bank account in the US, I was asked for identification and basic proof details. I prepared government-issued ID and confirmed what the bank accepted for verification. I learned requirements vary by institution, so checking the bank's official guidance helped me avoid surprises during onboarding.",
   content_lang |-> "en"],
  [title |-> "US: No SSN yet - discussing options",
   category |-> "Onboarding",
   tags |-> "ssn,itin,account,requirements,usa",
   content |-> "I did not have an SSN and was unsure if I could open an account. I asked the bank what alternatives were acceptable and learned some institutions may support different verification paths. I documented what the bank requested and followed official instructions to stay compliant with their process.",
   content_lang |-> "en"],
  [title |-> "US: Online vs branch onboarding differences",
   category |-> "Onboarding",
   tags |-> "online,branch,verification,onboarding,usa",
   content |-> "I was deciding between opening an account online or at a branch. Online onboarding was faster but required strict identity verification steps. Branch onboarding allowed me to ask questions and clarify requirements in real time. I chose based on which path reduced confusion and improved confidence.",
   content_lang |-> "en"],
  [title |-> "US: Mobile app login issues and device trust",
   category |-> "Digital Access",
   tags |-> "mobile,login,device,reset,usa",
   content |-> "I could not log in to my banking app after changing settings on my phone. I checked whether the device needed re-verification and used the app's official recovery steps. I avoided repeated attempts that might lock the account. After verification, access returned and I enabled security notifications.",
   content_lang |-> "en"],
  [title |-> "US: Why 2FA matters and what to do if it fails",
   category |-> "Digital Access",
   tags |-> "2fa,security,codes,access,usa",
   content |-> "I wondered why two-factor authentication was required. I learned it adds protection beyond a password. When a code did not arrive, I checked my contact settings and used official recovery steps. Keeping 2FA enabled reduced account takeover risk.",
   content_lang |-> "en"],
  [title |-> "US: Shared device risks for banking apps",
   category |-> "Digital Access",
   tags |-> "shared_device,privacy,security,logout,usa",
   content |-> "My family shared a device and I worried about privacy in banking apps. I learned that shared devices increase risk. I avoided saving passwords, logged out after sessions, and used device-level protections. When possible, using a personal device reduced accidental exposure.",
   content_lang |-> "en"],
  [title |-> "US: Debit card declined at a merchant",
   category |-> "Cards",
   tags |-> "debit,declined,limits,merchant,usa",
   content |-> "My debit card was declined unexpectedly. I checked whether I had reached a daily limit or whether the transaction was blocked for security. I reviewed account alerts and tried a smaller transaction. The issue was resolved after confirming activity through official channels.",
   content_lang |-> "en"],
  [title |-> "US: First credit card basics and responsible use",
   category |-> "Cards",
   tags |-> "credit_card,basics,limit,pay_on_time,usa",
   content |-> "I wanted my first credit card but was worried about mistakes. I learned that paying on time and keeping utilization low helps avoid problems. I started with a small limit and used alerts to track spending. Responsible use helped me build confidence and avoid fees.",
   content_lang |-> "en"],
  [title |-> "US: Online purchases and fraud monitoring",
   category |-> "Payments",
   tags |-> "online_payments,fraud,alerts,secure,usa",
   content |-> "I was unsure how safe online payments were. I enabled transaction alerts, used trusted merchants, and avoided saving payment details on unknown sites. When something looked suspicious, I checked official support guidance. Monitoring and quick reporting were key to staying safe.",
   content_lang |-> "en"],
  [title |-> "US: IRS scam call recognition",
   category |-> "Fraud/Scam",
   tags |-> "irs,scam,phone,pressure,usa",
   content |-> "I received a call claiming to be from the IRS and demanding immediate action. I did not share personal data and ended the call. I verified through official government channels and learned that scam calls often use pressure tactics. Using trusted contacts prevented a costly mistake.",
   content_lang |-> "en"],
  [title |-> "US: Person-to-person transfer scams (P2P risk)",
   category |-> "Fraud/Scam",
   tags |-> "p2p,transfer,scam,irreversible,usa",
   content |-> "I learned that some person-to-person transfers can be hard to reverse. I verify recipients carefully before sending money and I avoid urgency tactics. When in doubt, I follow official guidance and I do not send funds until verification is clear.",
   content_lang |-> "en"],
  [title |-> "US: Account locked after suspicious login",
   category |-> "Fraud/Scam",
   tags |-> "account,locked,suspicious_login,reset,usa",
   content |-> "My account was locked after unusual login activity. I followed the official steps to verify identity and reset access. I reviewed recent activity and changed credentials using secure methods. After recovery, I enabled additional security protections to reduce repeat incidents.",
   content_lang |-> "en"],
  [title |-> "US: Overdraft fees and avoiding repeat charges",
   category |-> "Fees",
   tags |-> "overdraft,fees,balance,alerts,usa",
   content |-> "I was surprised by an overdraft fee and wanted to avoid it in the future. I learned to monitor my balance, set alerts, and keep a small buffer. I reviewed which transactions were pending versus posted. These habits helped reduce unexpected fees.",
   content_lang |-> "en"],
  [title |-> "US: Understanding statements (pending vs posted)",
   category |-> "Statements",
   tags |-> "statement,pending,posted,charges,usa",
   content |-> "I found bank statements confusing and did not know why totals changed. I learned the difference between pending and posted transactions and how holds can affect available balance. Reviewing statement categories helped me spot unfamiliar charges early and take action quickly if needed.",
   content_lang |-> "en"],
  [title |-> "US: Who to contact for support (branch vs hotline vs in-app)",
   category |-> "Support",
   tags |-> "support,branch,hotline,in_app,usa",
   content |-> "I was unsure who to contact when something went wrong. I use official support paths: in-app help for basic issues, hotline for urgent access problems, and a branch visit when identity verification is required. Choosing the right channel reduces delays.",
   content_lang |-> "en"]
  >>

SeedContents == {seed_cards[i].content : i \in DOMAIN seed_cards}

SeedCounts == [i \in 1..Len(seed_cards) |-> Counter(tokenize(seed_cards[i].content))]

(***************************************************************************)
(* Matching (simple, explainable)                                          *)
(***************************************************************************)
\* in hundredths: 18.0
MIN_MATCH_SCORE == 1800
MAX_MATCHES == 5
TOP_VISIBLE == 3

\* 15.0, 3.0 and 5.0 in score_experience
TAG_BONUS_CAP == 15
TAG_BONUS_EACH == 3
CATEGORY_BONUS == 5

\* the base the wide products below are split in, so that every intermediate
\* value stays inside TLC's 32-bit integers
SplitBase == 10000

\* a similarity is the real number dot / sqrt(sq), kept exactly as the pair;
\* the float that cosine_sim returns is cosine_double below, which differs from
\* it in the last bits and gives the same score once rounded to hundredths
ZeroSim == [dot |-> 0, sq |-> 1]

\* counter.get(k, 0)
Get(counter, k) ==
  LET at == {i \in DOMAIN counter.keys : counter.keys[i] = k}
  IN  IF at = {} THEN 0 ELSE counter.counts[CHOOSE i \in at : TRUE]

\* sum(v * v for v in counter.values())
SumSquares(counter) ==
  Sum([i \in DOMAIN counter.counts |-> counter.counts[i] * counter.counts[i]])

cosine_sim(a, b) ==
  IF Len(a.keys) = 0 \/ Len(b.keys) = 0 THEN ZeroSim
  ELSE LET dot == Sum([i \in DOMAIN a.keys |-> a.counts[i] * Get(b, a.keys[i])])
           na2 == SumSquares(a)
           nb2 == SumSquares(b)
       IN  IF na2 = 0 \/ nb2 = 0 THEN ZeroSim
           ELSE [dot |-> dot, sq |-> na2 * nb2]

(***************************************************************************)
(* cosine_sim as the interpreter computes it: dot, the sums of squares and *)
(* their square roots are Python floats, IEEE 754 doubles, and math.sqrt,  *)
(* * and / each round their exact result to the nearest double, ties to    *)
(* the even mantissa. A positive double is kept as its 53-bit mantissa m   *)
(* (2^52 <= m < 2^53) and its exponent e, its value being m * 2^e; a       *)
(* natural number of up to 112 bits is kept as 8 limbs of 14 bits, the     *)
(* least significant first.                                                *)
(***************************************************************************)
LimbBits == 14
LimbBase == 16384
Limbs == 8
MantissaLimbs == 4
MantissaBits == 53

\* the limbs of f written out, so that each is computed once
AsLimbs(f) == <<f[1], f[2], f[3], f[4], f[5], f[6], f[7], f[8]>>

\* the natural number n < 2^28 as limbs
Big(n) == <<n % LimbBase, n \div LimbBase, 0, 0, 0, 0, 0, 0>>

\* the limbs of x from place i on, once carries and borrows are passed upward
RECURSIVE Carry(_, _, _)
Carry(x, i, c) ==
  IF i > Len(x) THEN <<>>
  ELSE LET t == x[i] + c IN <<t % LimbBase>> \o Carry(x, i + 1, t \div LimbBase)

BigAdd(x, y) == Carry([i \in 1..Limbs |-> x[i] + y[i]], 1, 0)

\* x - y for x >= y
BigSub(x, y) == Carry([i \in 1..Limbs |-> x[i] - y[i]], 1, 0)

\* x >= y
BigGeq(x, y) ==
  LET differ == {i \in 1..Limbs : x[i] # y[i]}
  IN  \/ differ = {}
      \/ LET top == CHOOSE i \in differ : \A j \in differ : j <= i IN x[top] > y[top]

BigGt(x, y) == x # y /\ BigGeq(x, y)

ShlLimbs(x, n) == AsLimbs([i \in 1..Limbs |-> IF i > n THEN x[i - n] ELSE 0])
ShrLimbs(x, n) == AsLimbs([i \in 1..Limbs |-> IF i + n <= Limbs THEN x[i + n] ELSE 0])

\* x * 2^k and x \div 2^k for k < 14
ShlBits(x, k) ==
  AsLimbs([i \in 1..Limbs |->
     ((x[i] * 2^k) % LimbBase) + (IF i > 1 THEN x[i - 1] \div 2^(LimbBits - k) ELSE 0)])
ShrBits(x, k) ==
  AsLimbs([i \in 1..Limbs |->
     (x[i] \div 2^k) + (IF i < Limbs THEN ((x[i + 1] % 2^k) * 2^(LimbBits - k)) ELSE 0)])

\* x * 2^n and x \div 2^n
Shl(x, n) == ShlBits(ShlLimbs(x, n \div LimbBits), n % LimbBits)
Shr(x, n) == ShrBits(ShrLimbs(x, n \div LimbBits), n % LimbBits)

\* x * y for x, y < 2^56
BigMul(x, y) ==
  Carry([k \in 1..Limbs |->
           Sum([i \in 1..MantissaLimbs |->
                  IF k + 1 - i \in 1..MantissaLimbs THEN x[i] * y[k + 1 - i] ELSE 0])],
        1, 0)

IsOdd(x) == x[1] % 2 = 1

\* the number of bits of n, for 0 < n < 2^28
BitLen(n) == CHOOSE d \in 1..28 : 2^(d - 1) <= n /\ n < 2^d

ZeroDouble == [m |-> Big(0), e |-> 0]
OneDouble == [m |-> Shl(Big(1), MantissaBits - 1), e |-> 1 - MantissaBits]

\* the double with mantissa q, or q + 1 when the exact result is rounded up
Rounded(q, up, e) ==
  LET m == IF up THEN BigAdd(q, Big(1)) ELSE q
  IN  IF m = Shl(Big(1), MantissaBits)
      THEN [m |-> Shl(Big(1), MantissaBits - 1), e |-> e + 1]
      ELSE [m |-> m, e |-> e]

\* one step of the square root taken bit by bit: st.res gains the bit st.bit
\* when what is left of the number allows it
SqrtStep(st) ==
  LET t == BigAdd(st.res, st.bit)
  IN  IF BigGeq(st.num, t)
      THEN [num |-> BigSub(st.num, t), res |-> BigAdd(Shr(st.res, 1), st.bit),
            bit |-> Shr(st.bit, 2)]
      ELSE [num |-> st.num, res |-> Shr(st.res, 1), bit |-> Shr(st.bit, 2)]

\* n steps, the first half of them computed before the second is begun
RECURSIVE SqrtSteps(_, _)
SqrtSteps(st, n) ==
  IF n = 0 THEN st
  ELSE IF n = 1 THEN SqrtStep(st)
  ELSE CHOOSE r \in {SqrtSteps(h, n - n \div 2) : h \in {SqrtSteps(st, n \div 2)}} : TRUE

\* math.sqrt(s) for a natural number s < 2^28
fsqrt(s) ==
  IF s = 0 THEN ZeroDouble
  ELSE LET t == MantissaBits - 1 - ((BitLen(s) - 1) \div 2)
           st == SqrtSteps([num |-> Shl(Big(s), 2 * t), res |-> Big(0),
                            bit |-> Shl(Big(1), 2 * (MantissaBits - 1))], MantissaBits)
       IN  Rounded(st.res, BigGt(st.num, st.res), -t)

\* what a division by zero gives in place of a float: ZeroDivisionError
ZeroDivision == [m |-> <<>>, e |-> 0]

\* x * y for doubles that are zero or positive
fmul(x, y) ==
  IF x = ZeroDouble \/ y = ZeroDouble THEN ZeroDouble ELSE
  LET p == BigMul(x.m, y.m)
      k == IF BigGeq(p, Shl(Big(1), 2 * MantissaBits - 1)) THEN MantissaBits
           ELSE MantissaBits - 1
      q == Shr(p, k)
      rest == BigSub(p, Shl(q, k))
      half == Shl(Big(1), k - 1)
  IN  Rounded(q, BigGt(rest, half) \/ (rest = half /\ IsOdd(q)), x.e + y.e + k)

\* one step of the long division by m: the next bit of the quotient
DivStep(st, m) ==
  LET r2 == Shl(st.r, 1)
  IN  IF BigGeq(r2, m)
      THEN [q |-> BigAdd(Shl(st.q, 1), Big(1)), r |-> BigSub(r2, m)]
      ELSE [q |-> Shl(st.q, 1), r |-> r2]

RECURSIVE DivSteps(_, _, _)
DivSteps(st, m, n) ==
  IF n = 0 THEN st
  ELSE IF n = 1 THEN DivStep(st, m)
  ELSE CHOOSE r \in {DivSteps(h, m, n - n \div 2) : h \in {DivSteps(st, m, n \div 2)}} : TRUE

\* dot / y for a natural number dot < 2^28 (a float that holds it exactly)
\* and a double y that is zero or positive
fdiv(dot, y) ==
  IF y = ZeroDouble THEN ZeroDivision
  ELSE IF dot = 0 THEN ZeroDouble
  ELSE LET d == BitLen(dot)
           a == Shl(Big(dot), MantissaBits - d)
           ge == BigGeq(a, y.m)
           st == IF ge
                 THEN DivSteps([q |-> Big(1), r |-> BigSub(a, y.m)], y.m, MantissaBits - 1)
                 ELSE DivSteps([q |-> Big(0), r |-> a], y.m, MantissaBits)
           r2 == Shl(st.r, 1)
       IN  Rounded(st.q, BigGt(r2, y.m) \/ (r2 = y.m /\ IsOdd(st.q)),
                   d - y.e - 2 * MantissaBits + (IF ge THEN 1 ELSE 0))

\* x <= y for doubles that are zero or positive
DoubleLeq(x, y) ==
  \/ x = ZeroDouble
  \/ y # ZeroDouble /\ (x.e < y.e \/ (x.e = y.e /\ BigGeq(y.m, x.m)))

\* cosine_sim without its two early returns
cosine_dividing(a, b) ==
  LET dot == Sum([i \in DOMAIN a.keys |-> a.counts[i] * Get(b, a.keys[i])])
  IN  fdiv(dot, fmul(fsqrt(SumSquares(a)), fsqrt(SumSquares(b))))

\* cosine_sim(a, b), the float it returns
cosine_double(a, b) ==
  IF Len(a.keys) = 0 \/ Len(b.keys) = 0 THEN ZeroDouble
  ELSE LET dot == Sum([i \in DOMAIN a.keys |-> a.counts[i] * Get(b, a.keys[i])])
           na == fsqrt(SumSquares(a))
           nb == fsqrt(SumSquares(b))
       IN  IF na = ZeroDouble \/ nb = ZeroDouble THEN ZeroDouble
           ELSE fdiv(dot, fmul(na, nb))

\* the sign of (2n - 1)^2 * sq - (2 * scale * dot)^2, that is of
\* (n - 1/2) - scale * dot / sqrt(sq), for n >= 1
HalfCompare(sim, scale, n) ==
  LET p == (2 * n - 1) * (2 * n - 1)
      ph == p \div SplitBase
      pl == p % SplitBase
      lhsHi == ph * sim.sq + ((pl * sim.sq) \div SplitBase)
      lhsLo == (pl * sim.sq) % SplitBase
      rhsHi == 4 * ((scale * scale) \div SplitBase) * sim.dot * sim.dot
  IN  IF lhsHi < rhsHi THEN -1
      ELSE IF lhsHi > rhsHi THEN 1
      ELSE IF lhsLo > 0 THEN 1
      ELSE 0

\* the greatest n in lo..hi with n - 1/2 <= scale * sim (lo is known to be one)
RECURSIVE HalfSearch(_, _, _, _)
HalfSearch(sim, scale, lo, hi) ==
  IF lo = hi THEN lo
  ELSE LET mid == (lo + hi + 1) \div 2
       IN  IF HalfCompare(sim, scale, mid) <= 0
           THEN HalfSearch(sim, scale, mid, hi)
           ELSE HalfSearch(sim, scale, lo, mid - 1)

\* scale * sim rounded to the nearest integer, a tie to the even one:
\* round(x, 2) and the format .2f, with scale the number of hundredths in x
RoundScaled(sim, scale) ==
  LET n == HalfSearch(sim, scale, 0, scale)
  IN  IF n > 0 /\ HalfCompare(sim, scale, n) = 0 /\ n % 2 = 1 THEN n - 1 ELSE n

\* str.strip()
RECURSIVE Strip(_)
Strip(s) ==
  IF Len(s) = 0 THEN s
  ELSE IF IsSpace(At(s, 1)) THEN Strip(SubSeq(s, 2, Len(s)))
  ELSE IF IsSpace(At(s, Len(s))) THEN Strip(SubSeq(s, 1, Len(s) - 1))
  ELSE s

\* str.split(",")
RECURSIVE SplitComma(_)
SplitComma(s) ==
  LET cut == {i \in 1..Len(s) : At(s, i) = ","}
  IN  IF cut = {} THEN <<s>>
      ELSE LET i == CHOOSE a \in cut : \A b \in cut : a <= b
           IN  <<SubSeq(s, 1, i - 1)>> \o SplitComma(SubSeq(s, i + 1, Len(s)))

NonEmpty(s) == Len(s) > 0

\* [x.strip().lower() for x in tags.split(",") if x.strip()]
TagList(tags) ==
  LET parts == SplitComma(tags)
      stripped == [i \in DOMAIN parts |-> str_lower(Strip(parts[i]))]
  IN  SelectSeq(stripped, NonEmpty)

\* a bonus without its cap
Uncapped(a, b) == b

Min(a, b) == IF a <= b THEN a ELSE b

\* Counter(tokenize(exp["content"])): the value for a curated content is looked
\* up in SeedCounts, which holds that same value computed once
content_counts(content) ==
  IF content \in SeedContents
  THEN SeedCounts[CHOOSE i \in 1..Len(seed_cards) : seed_cards[i].content = content]
  ELSE Counter(tokenize(content))

\* score_experience from its second line on: q_tokens is tokenize(question)
\* and q_low is normalize(question).lower()
score_card(q_tokens, q_low, exp) ==
  LET q_counts == Counter(q_tokens)
      c_counts == content_counts(exp.content)
      sim == cosine_sim(q_counts, c_counts)
      exp_tags == TagList(exp.tags)
      q_set == Range(q_tokens)
      InQuestion(tg) == tg \in q_set
      overlap == SelectSeq(exp_tags, InQuestion)
      bonus == IF Len(overlap) > 0
               THEN Min(TAG_BONUS_CAP, TAG_BONUS_EACH * Len(overlap))
               ELSE 0
      cat == str_lower(exp.category)
      cat_match == Len(cat) > 0 /\ Contains(q_low, cat)
      why == <<[part |-> "text_similarity", value |-> RoundScaled(sim, 100),
                shown |-> <<>>]>>
             \o (IF Len(overlap) > 0
                 THEN <<[part |-> "tag_overlap", value |-> bonus,
                         shown |-> SubSeq(overlap, 1, Min(6, Len(overlap)))]>>
                 ELSE <<>>)
             \o (IF cat_match
                 THEN <<[part |-> "category_match", value |-> CATEGORY_BONUS,
                         shown |-> <<>>]>>
                 ELSE <<>>)
  IN  [id |-> exp.id,
       title |-> exp.title,
       category |-> exp.category,
       tags |-> exp.tags,
       content |-> exp.content,
       content_lang |-> exp.content_lang,
       created_at |-> exp.created_at,
       score |-> RoundScaled(sim, 100 * 100) + 100 * bonus
                 + (IF cat_match THEN 100 * CATEGORY_BONUS ELSE 0),
       why |-> why]

score_experience(question, exp) ==
  score_card(tokenize(question), str_lower(normalize(question)), exp)

\* a clause that asks for the cards of Canada whatever the region
canada_clause(region) == "canada"

\* the LIKE pattern of _region_clause
region_clause(region) == IF region = "us" THEN "usa" ELSE "canada"

\* tags LIKE '%marker%': SQLite's LIKE ignores the case of ASCII letters
TagsLike(tags, marker) == Contains(str_lower(tags), str_lower(marker))

\* ORDER BY id DESC: a store holds its rows in insertion order, ids ascending
\* ORDER BY id ASC
OrderByIdAsc(table) == table

OrderByIdDesc(table) == [i \in 1..Len(table) |-> table[Len(table) + 1 - i]]

\* the SELECT of get_top_matches
select_rows(table, region, demo_region_filter) ==
  LET InRegion(r) == TagsLike(r.tags, region_clause(region))
  IN  OrderByIdDesc(IF demo_region_filter THEN SelectSeq(table, InRegion) ELSE table)

\* s["score"] > MIN_MATCH_SCORE
AboveThreshold(s) == s.score > MIN_MATCH_SCORE

\* s["score"] >= MIN_MATCH_SCORE
PassesThreshold(s) == s.score >= MIN_MATCH_SCORE

\* x goes behind every element whose score is at least its own: the order of
\* equal scores is kept, as list.sort(reverse=True) keeps it
RECURSIVE InsertByScore(_, _)
InsertByScore(sorted, x) ==
  IF Len(sorted) = 0 THEN <<x>>
  ELSE IF sorted[1].score >= x.score
       THEN <<sorted[1]>> \o InsertByScore(Tail(sorted), x)
       ELSE <<x>> \o sorted

\* scored.sort(key=lambda x: x["score"], reverse=True)
RECURSIVE SortByScoreDesc(_)
SortByScoreDesc(scored) ==
  IF Len(scored) = 0 THEN <<>>
  ELSE InsertByScore(SortByScoreDesc(SubSeq(scored, 1, Len(scored) - 1)),
                     scored[Len(scored)])

\* scored[:] instead of scored[:limit]
KeepAll(scored, limit) == scored

Truncate(scored, limit) == SubSeq(scored, 1, Min(limit, Len(scored)))

\* scored = [score_experience(question, r) for r in rows]
\* (the two values that depend on the question alone are computed once)
score_rows(question, rows) ==
  LET q_tokens == tokenize(question)
      q_low == str_lower(normalize(question))
  IN  [i \in DOMAIN rows |-> score_card(q_tokens, q_low, rows[i])]

\* the filter keeping the scores of at most minimum
top_matches_under(scored, minimum, limit) ==
  Truncate(SortByScoreDesc(SelectSeq(scored, LAMBDA s : s.score <= minimum)), limit)

\* the last three lines of get_top_matches when MIN_MATCH_SCORE is set to
\* minimum hundredths
top_matches_at(scored, minimum, limit) ==
  Truncate(SortByScoreDesc(SelectSeq(scored, LAMBDA s : s.score >= minimum)), limit)

\* the last three lines of get_top_matches
top_matches(scored, limit) ==
  Truncate(SortByScoreDesc(SelectSeq(scored, PassesThreshold)), limit)

get_top_matches(table, question, region, demo_region_filter, limit) ==
  top_matches(score_rows(question, select_rows(table, region, demo_region_filter)),
              limit)

(***************************************************************************)
(* UI helpers the handlers use                                             *)
(***************************************************************************)
REGION_LANGS(region) ==
  IF region = "ca" THEN {"en", "fr"}
  ELSE IF region = "us" THEN {"en", "es"}
  ELSE {"en"}

pick_db_path(presentation) == IF presentation = "1" THEN DEMO_DB_PATH ELSE APP_DB_PATH

\* len(question) < 8 in ask
MIN_QUESTION_LEN == 8

\* LIMIT 6, LIMIT 200 and LIMIT 30 of the page queries
LATEST_LIMIT == 6
CARDS_LIMIT == 200
ADMIN_LIMIT == 30

(***************************************************************************)
(* Requests.  A request carries every field; the ones its route does not   *)
(* read are empty.                                                         *)
(***************************************************************************)
AskRequest(question, region, lang, presentation) ==
  [route |-> "/ask", question |-> question, region |-> region, lang |-> lang,
   presentation |-> presentation, title |-> "", category |-> "", tags |-> "",
   content |-> "", content_lang |-> ""]

AdminAddRequest(title, category, tags, content, content_lang, lang, presentation) ==
  [route |-> "/admin/add", question |-> "", region |-> "ca", lang |-> lang,
   presentation |-> presentation, title |-> title, category |-> category,
   tags |-> tags, content |-> content, content_lang |-> content_lang]

ViewRequest(route, region, presentation) ==
  [route |-> route, question |-> "", region |-> region, lang |-> "en",
   presentation |-> presentation, title |-> "", category |-> "", tags |-> "",
   content |-> "", content_lang |-> ""]

TransferQuestion == "My transfer is pending and I don't know why"

AskRequests ==
  { \* too short once normalized (7 characters), though 17 as sent
    AskRequest("   hi \t  bank    ", "ca", "en", "0"),
    \* exactly 8 characters
    AskRequest("pending?", "ca", "fr", "0"),
    \* too short, and with a banned keyword
    AskRequest(" kill\tit ", "ca", "en", "0"),
    \* phone-shaped only once the two spaces have become one
    AskRequest("call 555  123 4567 now", "ca", "en", "0"),
    \* rejected by the gate, each by two checks
    AskRequest("how to kill a pending transfer http://x.co", "ca", "en", "1"),
    AskRequest("see https://canada.ca about 12345678901", "us", "es", "0"),
    AskRequest("my id 12345678901 call 555-123-4567", "ca", "en", "0"),
    AskRequest("call 555-123-4567 now or bob@mail.com", "ca", "en", "1"),
    AskRequest("please write to bob@mail.com", "ca", "en", "0"),
    \* presentation mode
    AskRequest(TransferQuestion, "ca", "en", "1"),
    AskRequest("  My transfer is   pending and I don't know why ", "US", "fr", "1"),
    AskRequest("zebra quartz xylophone", "mx", "en", "1"),
    \* normal mode
    AskRequest("monthly fees too high", "ca", "en", "0"),
    AskRequest("fees on my declined card account", "", "en", "0"),
    AskRequest("were my card fees declined", "us", "en", "") }

FeesContent ==
  "We noticed new fees on our account.  I called the branch and asked about a waiver. It got resolved later, much sooner than expected this month luckily."

DeclinedContent ==
  "We were travelling when my card was declined. We checked the limits at https://www.canada.ca/en/financial-consumer-agency.html and it worked eventually. Calling the bank fixed the rest!"

AdminAddRequests ==
  { \* accepted
    AdminAddRequest("  Unexpected   monthly fees ", "Fees", "fees, waiver ,account",
                    FeesContent, "FR", "fr", "0"),
    AdminAddRequest("Card declined abroad", "Cards", "card,declined,limits",
                    DeclinedContent, "de", "EN", "0"),
    \* refused in presentation mode
    AdminAddRequest("Card declined abroad", "Cards", "card,declined,limits",
                    DeclinedContent, "en", "en", "1"),
    \* a banned keyword that only the joined fields hold
    AdminAddRequest("Reset at the bank", "Password", "login,reset",
                    FeesContent, "en", "en", "0"),
    \* a banned keyword, a link outside the allowlist and too little structure
    AdminAddRequest("Scam", "Fraud/Scam", "scam",
                    "They asked for my otp code on https://totally-random-site.example/x",
                    "en", "es", "0"),
    \* a link outside the allowlist and too little structure
    AdminAddRequest("Links", "Support", "support,links",
                    "See https://canada.ca/help and https://totally-random-site.example/x for more.",
                    "en", "en", "0"),
    \* too little structure only
    AdminAddRequest("Short", "Support", "support",
                    "I was locked out. It got fixed.", "es", "en", "0") }

ViewRequests ==
  { ViewRequest("/", "ca", "1"),
    ViewRequest("/cards", "us", "0"),
    ViewRequest("/admin", "ca", "0"),
    ViewRequest("/admin", "ca", "1") }

(***************************************************************************)
(* State                                                                   *)
(***************************************************************************)
\* how many cards the live store may come to hold, and how many more process
\* starts (each one reseeds the demo store) may follow the first
MaxLive == 2
MaxRestarts == 1

VARIABLES
  live,      \* table experiences of app.db, in insertion order
  liveSeq,   \* the last id AUTOINCREMENT gave out in app.db
  demo,      \* table experiences of demo_only.db, in insertion order
  demoSeq,   \* the last id AUTOINCREMENT gave out in demo_only.db
  restarts,  \* process starts after the first
  seedPc,    \* where a starting process is in ensure_demo_db_seeded_only
  pc,        \* where the request being handled is in its handler
  req,       \* that request
  loc,       \* the handler's local variables
  resp,      \* the response, once the handler has ended
  other,     \* a second request, handled by another thread of the pool
  page,      \* what the browser page shows of the last answer
  calc       \* a function of the matching code applied by itself, and its value

vars ==
  <<live, liveSeq, demo, demoSeq, restarts, seedPc, pc, req, loc, resp, other, page, calc>>
storeVars == <<live, liveSeq, demo, demoSeq>>
seedVars == <<restarts, seedPc>>
auxVars == <<other, page, calc>>

NoRequest == ViewRequest("", "", "")

\* rows and scored are <<>> and read is {} until the handler fetches rows
NoLocals ==
  [question |-> "", region |-> "", lang |-> "", presentation |-> "",
   title |-> "", category |-> "", tags |-> "", content |-> "", content_lang |-> "",
   read |-> {}, rows |-> <<>>, scored |-> <<>>]

\* status 0: no response yet; matches and cards are the scored matches of an
\* answer and the cards a page lists
NoResponse ==
  [status |-> 0, key |-> "", reason |-> "", body |-> "", matches |-> <<>>, cards |-> <<>>]

\* HTTPException(status_code, detail): key names the I18N message of the
\* detail (or the fixed English text), reason the reason code it includes
Failure(status, key, reason) ==
  [NoResponse EXCEPT !.status = status, !.key = key, !.reason = reason, !.body = "detail"]

\* RedirectResponse(url, status_code=303)
Redirect(url) == [NoResponse EXCEPT !.status = 303, !.body = url]

\* the other thread has no request
NoOther == [pc |-> "idle", req |-> NoRequest, resp |-> NoResponse, pending |-> <<>>]

\* the page before a question was asked: the elements err, empty, cards and
\* moreWrap (its button and its grid of deferred cards) are empty
NoPage ==
  [status |-> "", err |-> <<>>, empty |-> "", fallback |-> "", cards |-> <<>>,
   wrapDisplay |-> "none", button |-> FALSE, hiddenGrid |-> <<>>, display |-> "none"]

\* nothing was computed
NoCalc == [fn |-> "", args |-> <<>>, applied |-> FALSE, again |-> FALSE, value |-> <<>>]

\* what datetime.utcnow().isoformat() may return
Instants == {"2026-01-01T00:00:00"}

\* the table behind a path
Table(db_path) == IF db_path = DEMO_DB_PATH THEN demo ELSE live

\* the rows cur.executemany inserts in ensure_demo_db_seeded_only
SeedRows(seq, now) ==
  [i \in DOMAIN seed_cards |->
     [id |-> seq + i,
      title |-> seed_cards[i].title,
      category |-> seed_cards[i].category,
      tags |-> seed_cards[i].tags,
      content |-> seed_cards[i].content,
      content_lang |-> seed_cards[i].content_lang,
      created_at |-> now]]

\* after the module is loaded for the first time: both tables exist, the demo
\* store holds the curated cards and no request was made
Init ==
  /\ live = <<>>
  /\ liveSeq = 0
  /\ \E now \in Instants : demo = SeedRows(0, now)
  /\ demoSeq = Len(seed_cards)
  /\ restarts = 0
  /\ seedPc = "idle"
  /\ pc = "idle"
  /\ req = NoRequest
  /\ loc = NoLocals
  /\ resp = NoResponse
  /\ other = NoOther
  /\ page = NoPage
  /\ calc = NoCalc

(***************************************************************************)
(* Another process start: ensure_demo_db_seeded_only, in its two commits   *)
(***************************************************************************)
\* a seeding routine that lacks the DELETE
delete_none(table) == table

\* an id column without AUTOINCREMENT: one more than the largest id in the table
rowid_after(table, seq) == IF table = <<>> THEN 1 ELSE table[Len(table)].id + 1

\* id INTEGER PRIMARY KEY AUTOINCREMENT: one more than the largest id the
\* table ever gave out, which sqlite keeps beside the table
next_id(table, seq) == seq + 1

\* cur.execute("DELETE FROM experiences") and conn.commit()
delete_all(table) == <<>>

SeedDelete ==
  /\ seedPc = "idle"
  /\ restarts < MaxRestarts
  /\ restarts' = restarts + 1
  /\ demo' = delete_all(demo)
  /\ seedPc' = "deleted"
  /\ UNCHANGED <<auxVars, live, liveSeq, demoSeq, pc, req, loc, resp>>

SeedInsert ==
  /\ seedPc = "deleted"
  /\ \E now \in Instants : demo' = demo \o SeedRows(next_id(demo, demoSeq) - 1, now)
  /\ demoSeq' = demoSeq + Len(seed_cards)
  /\ seedPc' = "idle"
  /\ UNCHANGED <<auxVars, live, liveSeq, restarts, pc, req, loc, resp>>

(***************************************************************************)
(* A request arrives                                                       *)
(***************************************************************************)
FirstStep(route) ==
  IF route = "/ask" THEN "ask_length"
  ELSE IF route = "/admin/add" THEN "admin_add"
  ELSE "view"

Receive(r) ==
  /\ pc \in {"idle", "done"}
  /\ r.route = "/admin/add" => Len(live) < MaxLive
  /\ req' = r
  /\ pc' = FirstStep(r.route)
  /\ loc' = NoLocals
  /\ resp' = NoResponse
  /\ UNCHANGED <<auxVars, storeVars, seedVars>>

(***************************************************************************)
(* POST /ask                                                               *)
(***************************************************************************)
\* x or default
OrDefault(x, default) == IF x = "" THEN default ELSE x

\* the first lines of ask: normalize the question, settle region and language
ask_locals(payload) ==
  LET region0 == str_lower(OrDefault(payload.region, "ca"))
      lang0 == str_lower(OrDefault(payload.lang, "en"))
      region == IF region0 \in {"ca", "us"} THEN region0 ELSE "ca"
  IN  [NoLocals EXCEPT
         !.question = normalize(payload.question),
         !.region = region,
         !.lang = IF lang0 \in REGION_LANGS(region) THEN lang0 ELSE "en",
         !.presentation = OrDefault(payload.presentation, "0")]

\* ask without its length check
never_short(question) == FALSE

too_short(question) == Len(question) = 0 \/ Len(question) < MIN_QUESTION_LEN

AskLengthCheck ==
  /\ pc = "ask_length"
  /\ LET l == ask_locals(req)
     IN  /\ loc' = l
         /\ IF too_short(l.question)
            THEN /\ resp' = Failure(400, "question_too_short", "")
                 /\ pc' = "done"
            ELSE /\ resp' = resp
                 /\ pc' = "ask_gate"
  /\ UNCHANGED <<auxVars, storeVars, seedVars, req>>

AskSafetyGate ==
  /\ pc = "ask_gate"
  /\ LET gate == safety_check_question(loc.question)
     IN  IF ~gate.ok
         THEN /\ resp' = Failure(400, "guardrail_rejected", gate.reason)
              /\ pc' = "done"
         ELSE /\ resp' = resp
              /\ pc' = "ask_rank"
  /\ UNCHANGED <<auxVars, storeVars, seedVars, req, loc>>

\* the row INSERT INTO experiences adds for these fields
NewRow(l, id, created_at) ==
  [id |-> id, title |-> l.title, category |-> l.category, tags |-> l.tags,
   content |-> l.content, content_lang |-> l.content_lang, created_at |-> created_at]

\* a ranking that also files the question in the store it read
AskRankFiling ==
  /\ pc = "ask_rank"
  /\ pc' = "done"
  /\ resp' = [NoResponse EXCEPT !.status = 200, !.body = "matches"]
  /\ IF loc.presentation = "1"
     THEN /\ demo' = Append(demo, NewRow([loc EXCEPT !.content = loc.question], demoSeq + 1, ""))
          /\ demoSeq' = demoSeq + 1
          /\ UNCHANGED <<live, liveSeq>>
     ELSE /\ live' = Append(live, NewRow([loc EXCEPT !.content = loc.question], liveSeq + 1, ""))
          /\ liveSeq' = liveSeq + 1
          /\ UNCHANGED <<demo, demoSeq>>
  /\ UNCHANGED <<auxVars, seedVars, req, loc>>

\* a ranking that reports an empty result as an error
AskRankNotFound ==
  /\ pc = "ask_rank"
  /\ LET db_path == pick_db_path(loc.presentation)
         demo_region_filter == (loc.presentation = "1")
         rows == select_rows(Table(db_path), loc.region, demo_region_filter)
         scored == score_rows(loc.question, rows)
         matches == top_matches(scored, MAX_MATCHES)
     IN  /\ loc' = [loc EXCEPT !.read = {db_path}, !.rows = rows, !.scored = scored]
         /\ resp' = IF matches = <<>>
                    THEN Failure(404, "no_results", "")
                    ELSE [NoResponse EXCEPT !.status = 200, !.body = "matches",
                                            !.matches = matches]
  /\ pc' = "done"
  /\ UNCHANGED <<auxVars, storeVars, seedVars, req>>

AskRank ==
  /\ pc = "ask_rank"
  /\ LET db_path == pick_db_path(loc.presentation)
         demo_region_filter == (loc.presentation = "1")
         rows == select_rows(Table(db_path), loc.region, demo_region_filter)
         scored == score_rows(loc.question, rows)
     IN  /\ loc' = [loc EXCEPT !.read = {db_path}, !.rows = rows, !.scored = scored]
         /\ resp' = [NoResponse EXCEPT !.status = 200, !.body = "matches",
                                        !.matches = top_matches(scored, MAX_MATCHES)]
  /\ pc' = "done"
  /\ UNCHANGED <<auxVars, storeVars, seedVars, req>>

(***************************************************************************)
(* POST /admin/add                                                         *)
(***************************************************************************)
\* the fields of the form as they were sent
raw_locals(form) ==
  [NoLocals EXCEPT
     !.lang = form.lang, !.presentation = form.presentation, !.title = form.title,
     !.category = form.category, !.tags = form.tags, !.content = form.content,
     !.content_lang = form.content_lang]

\* the fields of the form as admin_add stores them
admin_add_locals(form) ==
  LET content_lang == str_lower(OrDefault(form.content_lang, "en"))
  IN  [NoLocals EXCEPT
         !.lang = str_lower(form.lang),
         !.presentation = form.presentation,
         !.title = normalize(form.title),
         !.category = normalize(form.category),
         !.tags = normalize(form.tags),
         !.content = normalize(form.content),
         !.content_lang = IF content_lang \in {"en", "fr", "es"} THEN content_lang ELSE "en"]

\* an insert that replaces what the table holds
replace_rows(table, row) == <<row>>

\* cur.execute("INSERT INTO experiences ...") and conn.commit()
insert_row(table, row) == Append(table, row)

\* admin_add without its presentation check
never_disabled(presentation) == FALSE

\* if presentation == "1" in admin and admin_add
admin_disabled(presentation) == presentation = "1"

AdminAdd ==
  /\ pc = "admin_add"
  /\ pc' = "done"
  /\ IF admin_disabled(req.presentation)
     THEN /\ resp' = Failure(403, "admin_disabled", "")
          /\ loc' = [loc EXCEPT !.presentation = req.presentation]
          /\ UNCHANGED storeVars
     ELSE LET l == admin_add_locals(req)
              gate == safety_check_experience(l.title, l.category, l.tags, l.content)
          IN  /\ loc' = l
              /\ IF ~gate.ok
                 THEN /\ resp' = Failure(400, "guardrail_rejected", gate.reason)
                      /\ UNCHANGED storeVars
                 ELSE /\ liveSeq' = liveSeq + 1
                      /\ \E now \in Instants :
                           live' = insert_row(live, NewRow(l, next_id(live, liveSeq), now))
                      /\ resp' = Redirect("/admin")
                      /\ UNCHANGED <<demo, demoSeq>>
  /\ UNCHANGED <<auxVars, seedVars, req>>

(***************************************************************************)
(* GET /, GET /cards, GET /admin                                           *)
(***************************************************************************)
\* SELECT * FROM experiences [WHERE clause] ORDER BY id DESC LIMIT limit
page_rows(table, region, presentation, limit) ==
  Truncate(select_rows(table, region, presentation = "1"), limit)

view_region(region) ==
  LET low == str_lower(region) IN IF low \in {"ca", "us"} THEN low ELSE "ca"

View ==
  /\ pc = "view"
  /\ pc' = "done"
  /\ LET region == view_region(req.region)
         db_path == IF req.route = "/admin" THEN APP_DB_PATH
                    ELSE pick_db_path(req.presentation)
         limit == IF req.route = "/" THEN LATEST_LIMIT
                  ELSE IF req.route = "/cards" THEN CARDS_LIMIT
                  ELSE ADMIN_LIMIT
         shown == IF req.route = "/admin" THEN "0" ELSE req.presentation
         rows == page_rows(Table(db_path), region, shown, limit)
     IN  IF req.route = "/admin" /\ admin_disabled(req.presentation)
         THEN /\ resp' = Redirect("/")
              /\ loc' = [loc EXCEPT !.presentation = req.presentation]
         ELSE /\ resp' = [NoResponse EXCEPT !.status = 200, !.body = "page", !.cards = rows]
              /\ loc' = [loc EXCEPT !.region = region, !.presentation = req.presentation,
                                    !.read = {db_path}, !.rows = rows]
  /\ UNCHANGED <<auxVars, storeVars, seedVars, req>>

(***************************************************************************)
(* The program                                                             *)
(***************************************************************************)
Requests == AskRequests \cup AdminAddRequests \cup ViewRequests

Arrival == \E r \in Requests : Receive(r)

Next ==
  \/ SeedDelete
  \/ SeedInsert
  \/ Arrival
  \/ AskLengthCheck
  \/ AskSafetyGate
  \/ AskRank
  \/ AdminAdd
  \/ View

Spec == Init /\ [][Next]_vars

(***************************************************************************)
(* Properties                                                              *)
(***************************************************************************)
AskEnded == pc = "done" /\ req.route = "/ask"
Answered == AskEnded /\ resp.status = 200
ClientError(r) == r.status \in 400..499

\* the question of the request being handled, as ask reads it
Asked == normalize(req.question)
FewerThanEight(question) == Len(question) < 8

\* nothing of a store has reached the handler
NothingRead == loc.read = {} /\ loc.rows = <<>> /\ loc.scored = <<>>

\* C1: an /ask request goes through normalize, the length check, the safety
\* gate and the ranking in that order: the gate sees only a normalized question
\* of at least 8 characters, the ranking only one the gate accepts, and a
\* question that fails the length check or the gate ends in a client error
\* with no store read, no card scored and no matches returned.
C1_AskOrder ==
  req.route = "/ask" =>
    /\ pc \in {"ask_length", "ask_gate"} => NothingRead /\ resp.status = 0
    /\ pc \in {"ask_gate", "ask_rank"} =>
         loc.question = Asked /\ ~FewerThanEight(Asked)
    /\ pc = "ask_rank" => safety_check_question(Asked).ok /\ NothingRead
    /\ AskEnded /\ FewerThanEight(Asked) =>
         /\ ClientError(resp) /\ resp.key = "question_too_short"
         /\ NothingRead /\ resp.matches = <<>>
    /\ AskEnded /\ ~safety_check_question(Asked).ok =>
         /\ ClientError(resp)
         /\ NothingRead /\ resp.matches = <<>>
    /\ Answered => ~FewerThanEight(Asked) /\ safety_check_question(Asked).ok

\* a question of 17 characters as sent and 7 once normalized was turned away
\* by the length check, and one made phone-shaped by normalize by the gate
C1_Witness ==
  /\ AskEnded
  /\ \/ Len(req.question) >= 8 /\ resp.key = "question_too_short"
     \/ ~HasPhone(req.question) /\ resp.reason = "possible_phone"

\* C2: every returned match has a score of at least 18.0, and the threshold
\* step discards no card whose score is 18.0 or more: such a card is missing
\* from the answer only when the answer is full.
C2_Threshold ==
  Answered =>
    /\ \A i \in DOMAIN resp.matches : resp.matches[i].score >= 1800
    /\ \A i \in DOMAIN loc.scored :
         loc.scored[i].score >= 1800 =>
           \/ \E j \in DOMAIN resp.matches : resp.matches[j] = loc.scored[i]
           \/ Len(resp.matches) = MAX_MATCHES

\* a card that scores 18.0 exactly was returned, next to one scored below
C2_Witness ==
  /\ Answered
  /\ \E j \in DOMAIN resp.matches : resp.matches[j].score = 1800
  /\ \E i \in DOMAIN loc.scored : loc.scored[i].score < 1800

\* C3: the returned list is sorted by score descending, and of two returned
\* cards with the same score the one with the higher id comes first.
C3_Sorted ==
  Answered =>
    \A i, j \in DOMAIN resp.matches :
      i < j =>
        /\ resp.matches[i].score >= resp.matches[j].score
        /\ resp.matches[i].score = resp.matches[j].score =>
             resp.matches[i].id > resp.matches[j].id

\* two cards with the same score were returned
C3_Witness ==
  /\ Answered
  /\ \E i, j \in DOMAIN resp.matches :
       i < j /\ resp.matches[i].score = resp.matches[j].score

\* the scored cards that reach the threshold
Kept == {i \in DOMAIN loc.scored : loc.scored[i].score >= MIN_MATCH_SCORE}

\* how many scored cards come before card i in the sorted list
Rank(i) ==
  Cardinality({k \in Kept :
     \/ loc.scored[k].score > loc.scored[i].score
     \/ loc.scored[k].score = loc.scored[i].score /\ k < i})

\* C4: at most 5 matches are returned and they are the first 5 entries of the
\* thresholded, sorted list: entry n of the answer is the card with n - 1 kept
\* cards before it, and no kept card that was left out scores higher than a
\* returned one.
C4_Limit ==
  Answered =>
    /\ Len(resp.matches) <= 5
    /\ Len(resp.matches) = Min(5, Cardinality(Kept))
    /\ \A i \in Kept :
         IF Rank(i) < 5
         THEN resp.matches[Rank(i) + 1] = loc.scored[i]
         ELSE \A j \in DOMAIN resp.matches :
                /\ resp.matches[j] # loc.scored[i]
                /\ resp.matches[j].score >= loc.scored[i].score

\* more than 5 cards reached the threshold and 5 were returned
C4_Witness == Answered /\ Cardinality(Kept) > MAX_MATCHES /\ Len(resp.matches) = MAX_MATCHES

\* the question gate has decided on the request being handled
QuestionGateRan ==
  /\ req.route = "/ask"
  /\ pc = "ask_rank" \/ (pc = "done" /\ resp.key # "question_too_short")

\* the code a handler reports for its gate
Reported == IF resp.key = "guardrail_rejected" THEN resp.reason ELSE "ok"

\* the checks of the question gate in the order of the claim, and their codes
QuestionFails(q) ==
  << contains_banned_keywords(q), extract_urls(q) # <<>>,
     HasIdNumber(q), HasPhone(q), HasEmail(q) >>
QuestionCodes ==
  << "banned_keywords", "url_not_allowed", "possible_id_number",
     "possible_phone", "possible_email" >>

\* the first check of fails that is TRUE decides the code; none gives "ok"
FirstFailing(fails, codes, reported) ==
  /\ (\A k \in DOMAIN fails : ~fails[k]) <=> reported = "ok"
  /\ \A k \in DOMAIN fails :
       fails[k] /\ (\A j \in 1..(k - 1) : ~fails[j]) => reported = codes[k]

\* C5: the question gate reports the code of the first failing check in the
\* order banned keyword, URL, 11-digit run, phone shape, email shape; a
\* question failing none is accepted, and the gate leaves the question as
\* normalize made it.
C5_QuestionGate ==
  QuestionGateRan =>
    /\ FirstFailing(QuestionFails(Asked), QuestionCodes, Reported)
    /\ Reported = "ok" <=> pc = "ask_rank" \/ resp.status = 200
    /\ loc.question = Asked

\* a question with a URL and an 11-digit run was rejected for the URL
C5_Witness ==
  /\ QuestionGateRan
  /\ resp.reason = "url_not_allowed"
  /\ HasIdNumber(loc.question)

\* the card gate has decided on the submission being handled
CardGateRan == pc = "done" /\ req.route = "/admin/add" /\ resp.status # 403

Submitted ==
  [title |-> normalize(req.title), category |-> normalize(req.category),
   tags |-> normalize(req.tags), content |-> normalize(req.content)]

CardFails(c) ==
  << contains_banned_keywords(JoinWith(<<c.title, c.category, c.tags, c.content>>, " ")),
     \E u \in Range(extract_urls(c.content)) : ~domain_allowed(u),
     structure_score(c.content) < 4 >>
CardCodes == << "banned_keywords", "disallowed_domain", "low_structure_score" >>

\* C6: the card gate reports the code of the first failing check in the order
\* banned keyword in title, category, tags and content taken together, URL off
\* the allowlist in content, structure score below 4; a submission failing
\* none is accepted.
C6_CardGate ==
  CardGateRan =>
    /\ FirstFailing(CardFails(Submitted), CardCodes, Reported)
    /\ Reported = "ok" <=> resp.status = 303

\* a submission with a banned keyword, a URL off the allowlist and too little
\* structure was rejected for the keyword
C6_Witness ==
  /\ CardGateRan
  /\ resp.reason = "banned_keywords"
  /\ CardFails(Submitted)[2]
  /\ CardFails(Submitted)[3]

\* the step in which admin_add handles the request
AdminAddStep == pc = "admin_add" /\ pc' = "done"

SameFields(row, c) ==
  /\ row.title = c.title
  /\ row.category = c.category
  /\ row.tags = c.tags
  /\ row.content = c.content

\* C7: admin_add in normal mode adds exactly one card with the normalized
\* fields to the live store when the card gate accepts them, and otherwise
\* leaves the live store as it is and answers with a client error that carries
\* the gate's reason code.
C7_AdminAdd ==
  [][AdminAddStep /\ req.presentation # "1" =>
       LET gate == safety_check_experience(Submitted.title, Submitted.category,
                                           Submitted.tags, Submitted.content)
       IN  IF gate.ok
           THEN /\ Len(live') = Len(live) + 1
                /\ SubSeq(live', 1, Len(live)) = live
                /\ SameFields(live'[Len(live')], Submitted)
                /\ \A i \in DOMAIN live : live[i].id # live'[Len(live')].id
                /\ ~ClientError(resp')
           ELSE /\ live' = live
                /\ ClientError(resp')
                /\ resp'.reason = gate.reason
                /\ gate.reason \in Range(CardCodes)]_vars

\* a card sent with runs of spaces is in the live store without them, and a
\* later submission was rejected
C7_Witness ==
  /\ CardGateRan
  /\ resp.status = 400
  /\ \E i \in DOMAIN live :
       \E r \in AdminAddRequests :
         r.title # normalize(r.title) /\ live[i].title = normalize(r.title)

\* C8: no step changes or removes a card of the live store, and a card leaves
\* a store only when the reseed empties the demo store.
C8_LiveKept ==
  [][/\ Len(live') >= Len(live)
     /\ \A i \in DOMAIN live : live'[i] = live[i]
     /\ (\E i \in DOMAIN demo : \A j \in DOMAIN demo' : demo'[j] # demo[i]) =>
          seedPc = "idle" /\ seedPc' = "deleted"]_vars

\* the live store is full and the demo store was reseeded when a question
\* is answered
C8_Witness ==
  /\ Len(live) = MaxLive
  /\ restarts > 0
  /\ seedPc = "idle"
  /\ Answered
  /\ \A i \in DOMAIN demo : demo[i].id > Len(seed_cards)

PassedCardGate(row) ==
  safety_check_experience(row.title, row.category, row.tags, row.content).ok

\* C9: every card in either store passes the card gate (no banned keyword,
\* every URL of content on the allowlist, structure score at least 4), the
\* curated cards of the seeding routine included.
C9_EveryCardPassedGate ==
  /\ \A i \in DOMAIN live : PassedCardGate(live[i])
  /\ \A i \in DOMAIN demo : PassedCardGate(demo[i])

IsCurated(row) == \E k \in DOMAIN seed_cards : SameFields(row, seed_cards[k])
DemoCurated == \A i \in DOMAIN demo : IsCurated(demo[i])

\* C10: the demo store holds only curated cards, and admin_add never writes to
\* it: in presentation mode the request is refused and nothing is inserted, in
\* normal mode the card goes to the live store alone.
C10_StoresApart ==
  [][/\ DemoCurated
     /\ DemoCurated'
     /\ AdminAddStep =>
          /\ demo' = demo
          /\ demoSeq' = demoSeq
          /\ req.presentation = "1" =>
               /\ resp'.status = 403
               /\ live' = live
               /\ liveSeq' = liveSeq]_vars

\* a submission in presentation mode was refused while the live store holds
\* a submitted card and the demo store its curated ones
C10_Witness ==
  /\ pc = "done"
  /\ req.route = "/admin/add"
  /\ req.presentation = "1"
  /\ resp.status = 403
  /\ Len(live) > 0
  /\ Len(demo) = Len(seed_cards)

\* the rows of table whose tags hold marker, whatever the case of its letters
Tagged(table, marker) ==
  {i \in DOMAIN table : Contains(str_lower(table[i].tags), marker)}

\* table holds the curated cards, each once and nothing else, 15 of them for
\* Canada and the 15 others for the USA
ExactlyCurated(table) ==
  /\ Len(table) = 30
  /\ Len(seed_cards) = 30
  /\ \A i \in DOMAIN table :
       SameFields(table[i], seed_cards[i]) /\ table[i].content_lang = seed_cards[i].content_lang
  /\ Cardinality(Tagged(table, "canada")) = 15
  /\ Cardinality(Tagged(table, "usa")) = 15
  /\ Tagged(table, "canada") \cap Tagged(table, "usa") = {}

\* C11: after every run of the seed routine the demo store holds exactly the
\* 30 curated cards, 15 tagged canada and 15 tagged usa with no card in both
\* groups, whatever it held before: runs on later process starts add no
\* duplicates.
C11_SeedReplaces ==
  /\ ExactlyCurated(demo)
  /\ [][seedPc = "deleted" /\ seedPc' = "idle" => ExactlyCurated(demo')]_vars

\* the seed routine ran again on a later process start
C11_Witness ==
  /\ restarts > 0
  /\ seedPc = "idle"
  /\ Len(demo) = Len(seed_cards)
  /\ demo[1].id > Len(seed_cards)

\* a step of the ask handler
AskStep == req.route = "/ask" /\ pc \in {"ask_length", "ask_gate", "ask_rank"} /\ pc' # pc

\* C12: no step of an /ask request, accepted or rejected, changes the live
\* store or the demo store: neither their rows nor the ids they gave out.
C12_AskReadsOnly ==
  [][AskStep => live' = live /\ demo' = demo /\ liveSeq' = liveSeq /\ demoSeq' = demoSeq]_vars

\* a question was answered with matches from the live store, which still
\* holds what it held
C12_Witness ==
  /\ Answered
  /\ loc.presentation # "1"
  /\ Len(resp.matches) > 0
  /\ Len(live) = Len(loc.rows)

\* the ids of a table go up strictly in the order the rows were created
IdsIncrease(table) == \A i, j \in DOMAIN table : i < j => table[i].id < table[j].id

\* the rows a step added to a table that only grows or is emptied
Added(before, after) ==
  IF Len(after) > Len(before) THEN SubSeq(after, Len(before) + 1, Len(after)) ELSE <<>>

\* every added row has an id above the highest id given out before the step
AboveAll(before, after, highest) ==
  \A i \in DOMAIN Added(before, after) : Added(before, after)[i].id > highest

\* C13: in each store the ids are unique and go up strictly in creation order,
\* and a new row never gets an id that was given out before, also when the
\* rows that held the earlier ids were deleted by a reseed.
C13_IdsMonotonic ==
  /\ [](IdsIncrease(live) /\ IdsIncrease(demo))
  /\ [](\A i \in DOMAIN live : live[i].id <= liveSeq)
  /\ [](\A i \in DOMAIN demo : demo[i].id <= demoSeq)
  /\ [][AboveAll(live, live', liveSeq) /\ AboveAll(demo, demo', demoSeq)]_vars

\* the demo store was reseeded and a live card was added: the curated rows
\* carry ids above those of the deleted rows
C13_Witness ==
  /\ restarts > 0
  /\ Len(demo) = Len(seed_cards)
  /\ demo[1].id = Len(seed_cards) + 1
  /\ Len(live) = 2
  /\ live[2].id = 2

(***************************************************************************)
(* Two requests at once: the handlers are plain functions, which the       *)
(* server runs on the threads of a pool; each opens its own connection.    *)
(* A SELECT with fetchall reads the committed rows in one statement; an    *)
(* INSERT opens a write transaction, which holds the row and its id until  *)
(* conn.commit() makes it part of the table.                               *)
(***************************************************************************)
\* a database that lets a second writer in while a write transaction is open
write_unlocked(o) == FALSE

\* the thread has run its INSERT and not yet its commit: the database file
\* is reserved for it and the INSERT of another connection waits
write_locked(o) == o.pc = "commit"

\* the requests of the first thread
ConcRequests ==
  {r \in AskRequests : r.question \in {"monthly fees too high", "were my card fees declined",
                                       " kill\tit ", TransferQuestion}}
  \cup {r \in AdminAddRequests : r.title = "Card declined abroad"}

\* the requests of the second thread: POST /admin/add
OtherRequests ==
  {r \in AdminAddRequests : r.title \in {"  Unexpected   monthly fees ", "Scam"} \/ r.presentation = "1"}

\* the cards that the requests being handled may still add
InFlight == (IF pc = "admin_add" THEN 1 ELSE 0) + (IF other.pc \in {"admin_add", "commit"} THEN 1 ELSE 0)

ConcArrival ==
  \E r \in ConcRequests :
    /\ r.route = "/admin/add" => Len(live) + InFlight < MaxLive
    /\ Receive(r)

OtherArrival ==
  \E r \in OtherRequests :
    /\ other.pc \in {"idle", "done"}
    /\ Len(live) + InFlight < MaxLive
    /\ other' = [NoOther EXCEPT !.pc = "admin_add", !.req = r]
    /\ UNCHANGED <<storeVars, seedVars, pc, req, loc, resp, page, calc>>

\* admin_add up to cur.execute("INSERT INTO experiences ...")
OtherInsert ==
  /\ other.pc = "admin_add"
  /\ IF admin_disabled(other.req.presentation)
     THEN other' = [other EXCEPT !.pc = "done", !.resp = Failure(403, "admin_disabled", "")]
     ELSE LET l == admin_add_locals(other.req)
              gate == safety_check_experience(l.title, l.category, l.tags, l.content)
          IN  IF ~gate.ok
              THEN other' = [other EXCEPT !.pc = "done",
                                          !.resp = Failure(400, "guardrail_rejected", gate.reason)]
              ELSE \E now \in Instants :
                     other' = [other EXCEPT !.pc = "commit",
                                            !.pending = <<NewRow(l, next_id(live, liveSeq), now)>>]
  /\ UNCHANGED <<storeVars, seedVars, pc, req, loc, resp, page, calc>>

\* conn.commit(), conn.close() and the redirect of admin_add
OtherCommit ==
  /\ other.pc = "commit"
  /\ live' = insert_row(live, other.pending[1])
  /\ liveSeq' = other.pending[1].id
  /\ other' = [other EXCEPT !.pc = "done", !.pending = <<>>, !.resp = Redirect("/admin")]
  /\ UNCHANGED <<demo, demoSeq, seedVars, pc, req, loc, resp, page, calc>>

\* admin_add on the first thread: its INSERT waits while the other thread's
\* write transaction is open
ConcAdminAdd == ~write_locked(other) /\ AdminAdd

ConcNext ==
  \/ ConcArrival
  \/ OtherArrival
  \/ AskLengthCheck
  \/ AskSafetyGate
  \/ AskRank
  \/ ConcAdminAdd
  \/ OtherInsert
  \/ OtherCommit

ConcSpec == Init /\ [][ConcNext]_vars

\* a step in which one of the two threads ends an admin-add with the redirect
AcceptedStep ==
  \/ pc = "admin_add" /\ pc' = "done" /\ resp'.status = 303
  \/ other.pc = "commit" /\ other'.pc = "done" /\ other'.resp.status = 303

\* the table got exactly one more row, whose id no other row has
OneMore(before, after) ==
  /\ Len(after) = Len(before) + 1
  /\ SubSeq(after, 1, Len(before)) = before
  /\ \A i \in DOMAIN before : before[i].id # after[Len(after)].id

\* C14: with an /ask or an admin-add on one thread and an admin-add on another,
\* in every interleaving, each accepted admin-add adds exactly one card with an
\* id of its own and no other step changes the live store (no insert is lost
\* or doubled), and each /ask ranks the rows its store held at the instant of
\* its SELECT, an uncommitted row never among them.
C14_Concurrent ==
  /\ [][IF AcceptedStep THEN OneMore(live, live') ELSE live' = live]_vars
  /\ [](\A i, j \in DOMAIN live : i # j => live[i].id # live[j].id)
  /\ [][pc = "ask_rank" /\ pc' = "done" =>
          /\ loc'.rows = select_rows(IF loc.presentation = "1" THEN demo ELSE live,
                                     loc.region, loc.presentation = "1")
          /\ \A i \in DOMAIN loc'.rows : <<loc'.rows[i]>> # other.pending]_vars

\* a question was answered from the one committed card while the other
\* thread's insert was waiting for its commit
C14_Witness ==
  /\ other.pc = "commit"
  /\ Answered
  /\ loc.presentation # "1"
  /\ Len(loc.rows) = 1
  /\ Len(live) = 1
  /\ Len(resp.matches) = 1

(***************************************************************************)
(* The page of GET / and its script: ask() clears the page, posts the      *)
(* question to /ask and renders the answer; the button made for the        *)
(* deferred cards shows them when it is clicked. One ask() is under way    *)
(* at a time: the user waits for the answer before asking again.           *)
(***************************************************************************)
\* the status text while the answer is awaited (an ellipsis in the source)
Waiting == "..."

\* data.matches.slice(0, TOP_VISIBLE)
visible_of(matches) == SubSeq(matches, 1, Min(TOP_VISIBLE, Len(matches)))

\* data.matches.slice(TOP_VISIBLE)
hidden_of(matches) == SubSeq(matches, TOP_VISIBLE + 1, Len(matches))

\* a grid of deferred cards that is shown as soon as it is built
hidden_open == "grid"

\* hiddenGrid.style.display of the grid just built
hidden_display == "none"

\* the cards an accepted form adds to the live store beside the page
FormRequests == {r \in AdminAddRequests : r.presentation = "0" /\ r.content \in {FeesContent, DeclinedContent}
                                         /\ r.title # "Reset at the bank"}

FormArrival == \E r \in FormRequests : page.status # Waiting /\ Receive(r)

\* ask() up to its fetch: the page is cleared and the request sent
PageAsk ==
  \E r \in AskRequests :
    /\ page.status # Waiting
    /\ pc \in {"idle", "done"}
    /\ page' = [NoPage EXCEPT !.status = Waiting]
    /\ req' = r
    /\ pc' = FirstStep(r.route)
    /\ loc' = NoLocals
    /\ resp' = NoResponse
    /\ UNCHANGED <<storeVars, seedVars, other, calc>>

\* "fallback" gets its note on a page in presentation mode
fallback_of(presentation) == IF presentation = "1" THEN "fallback_note" ELSE ""

\* ask() from the answer on
PageRender ==
  /\ page.status = Waiting
  /\ pc = "done"
  /\ req.route = "/ask"
  /\ page' =
       IF resp.status \notin 200..299
       THEN [page EXCEPT !.status = "", !.err = <<"error_prefix", resp.key, resp.reason>>]
       ELSE IF resp.matches = <<>>
       THEN [page EXCEPT !.status = "", !.empty = "no_results",
                         !.fallback = fallback_of(req.presentation)]
       ELSE IF hidden_of(resp.matches) = <<>>
       THEN [page EXCEPT !.status = "", !.cards = visible_of(resp.matches),
                         !.fallback = fallback_of(req.presentation)]
       ELSE [page EXCEPT !.status = "", !.cards = visible_of(resp.matches),
                         !.wrapDisplay = "block", !.button = TRUE,
                         !.hiddenGrid = hidden_of(resp.matches),
                         !.display = hidden_display,
                         !.fallback = fallback_of(req.presentation)]
  /\ UNCHANGED <<storeVars, seedVars, pc, req, loc, resp, other, calc>>

\* btn.onclick
ShowMore ==
  /\ page.button
  /\ page' = [page EXCEPT !.display = "grid", !.button = FALSE]
  /\ UNCHANGED <<storeVars, seedVars, pc, req, loc, resp, other, calc>>

PageNext ==
  \/ PageAsk
  \/ FormArrival
  \/ AskLengthCheck
  \/ AskSafetyGate
  \/ AskRank
  \/ AdminAdd
  \/ PageRender
  \/ ShowMore

PageSpec == Init /\ [][PageNext]_vars

\* the page shows the answer to the request that was handled last
Rendered == AskEnded /\ page.status = ""

\* the handler found no card to return: its store had no row for it, or no
\* row scored as high as the threshold
NothingToReturn ==
  loc.rows = <<>> \/ \A i \in DOMAIN loc.scored : loc.scored[i].score < MIN_MATCH_SCORE

\* C15: a question of at least 8 characters that passes the safety gate is
\* answered with status 200, and with matches = [] when the store has no card
\* or none reaches the threshold; the page then shows its "no results" text
\* and no error. A question the gate rejects gets status 400 with the reason
\* code, which the page shows as an error: the two never look alike.
C15_EmptyIsNotError ==
  AskEnded /\ ~FewerThanEight(Asked) =>
    IF safety_check_question(Asked).ok
    THEN /\ resp.status = 200
         /\ resp.body = "matches"
         /\ resp.reason = ""
         /\ NothingToReturn => resp.matches = <<>>
         /\ Rendered => page.err = <<>>
         /\ Rendered /\ NothingToReturn => page.empty = "no_results" /\ page.cards = <<>>
    ELSE /\ resp.status = 400
         /\ resp.body = "detail"
         /\ \E k \in DOMAIN QuestionCodes : resp.reason = QuestionCodes[k]
         /\ resp.matches = <<>>
         /\ Rendered => page.err = <<"error_prefix", resp.key, resp.reason>> /\ page.empty = ""

\* a question was answered from the live store while it held no card, and the
\* page shows that nothing was found
C15_Witness ==
  /\ Rendered
  /\ resp.status = 200
  /\ loc.read = {APP_DB_PATH}
  /\ live = <<>>
  /\ loc.rows = <<>>
  /\ resp.matches = <<>>
  /\ page.empty = "no_results"

\* the deferred cards are on show
DeferredShown(p) == p.wrapDisplay = "block" /\ p.display = "grid" /\ p.hiddenGrid # <<>>

\* C16: the page shows the first 3 returned matches and keeps the rest, at
\* most 2, in a grid that is not displayed; only a click on "show more" makes
\* that grid visible, never the rendering of an answer, and the visible cards
\* followed by the deferred ones are the returned matches in their order.
C16_ShowMore ==
  /\ [](Rendered /\ resp.status = 200 =>
          /\ page.cards = [i \in 1..Min(3, Len(resp.matches)) |-> resp.matches[i]]
          /\ Len(page.hiddenGrid) <= 2
          /\ page.cards \o page.hiddenGrid = resp.matches
          /\ page.hiddenGrid # <<>> => page.button \/ DeferredShown(page))
  /\ [][~DeferredShown(page) /\ DeferredShown(page') =>
          /\ page.button /\ ~page'.button
          /\ page.status = "" /\ page'.status = ""
          /\ page'.cards = page.cards /\ page'.hiddenGrid = page.hiddenGrid
          /\ resp' = resp /\ pc' = pc]_vars

\* five matches came back, and the two deferred ones are shown after the click
C16_Witness ==
  /\ Rendered
  /\ Len(resp.matches) = 5
  /\ Len(page.cards) = 3
  /\ Len(page.hiddenGrid) = 2
  /\ DeferredShown(page)

\* the marker the claim gives a region as the request names it
Marker(region) == IF str_lower(region) = "us" THEN "usa" ELSE "canada"

\* the rows of a table at the places of a set
RowsAt(table, places) == {table[i] : i \in places}

\* C17: an /ask request with presentation = "1" ranks the cards of the demo
\* store whose tags contain 'usa' when its region is us and 'canada' when it
\* is anything else, and those only, so every returned match carries that
\* marker; any other /ask request ranks all cards of the live store.
C17_RegionFilter ==
  [][req.route = "/ask" /\ pc = "ask_rank" /\ pc' = "done" =>
       IF req.presentation = "1"
       THEN /\ loc'.read = {DEMO_DB_PATH}
            /\ Range(loc'.rows) = RowsAt(demo, Tagged(demo, Marker(req.region)))
            /\ Len(loc'.rows) = Cardinality(Tagged(demo, Marker(req.region)))
            /\ \A i \in DOMAIN resp'.matches :
                 Contains(str_lower(resp'.matches[i].tags), Marker(req.region))
       ELSE /\ loc'.read = {APP_DB_PATH}
            /\ Range(loc'.rows) = Range(live)
            /\ Len(loc'.rows) = Len(live)]_vars

\* a presentation-mode question for region us was answered with matches
C17_Witness ==
  /\ Answered
  /\ req.presentation = "1"
  /\ str_lower(req.region) = "us"
  /\ Len(resp.matches) > 1
  /\ Len(loc.rows) = 15

(***************************************************************************)
(* The functions of the matching code applied by themselves: cosine_sim to *)
(* two term-count vectors, score_experience to a question and a card.      *)
(***************************************************************************)
\* texts whose tokens make the vectors; the last has no token
CalcTexts ==
  { "aa", "aa bb", "bb aa", "aa bb cc", "aa aa bb", "bb cc dd", "cc dd",
    "aa bb cc dd", "aa aa bb cc", "a ? b" }

\* Counter objects: those of the texts, and one whose only count is zero
CalcCounters ==
  {Counter(tokenize(text)) : text \in CalcTexts} \cup {[keys |-> <<"aa">>, counts |-> <<0>>]}

CalcQuestions ==
  { "otp pending transfer: login looks suspicious, a scam? what else can I try",
    "my transfer is pending",
    "pending, pending and PENDING",
    "Transfer after transfer: my TRANSFER is late",
    "otp pending transfer login scam",
    "x: my e-transfer is pending, credit_history and wire transfer too",
    "zebra quartz xylophone" }

CalcTags ==
  { "otp,pending,transfer,login,suspicious,scam",
    " OTP , Pending ,,transfer ",
    "pending,pending,transfer",
    "wire transfer,e,canada",
    "E-Transfer, credit_history ,x,wire transfer,pending",
    "e-transfer,credit_history,x",
    "" }

CalcContents ==
  { "My transfer was pending for a week", "OTP, pending transfer: login scam", "?! - a" }

\* the last is what admin_add stores for a category of spaces
CalcCategories == { "Transfers", "Transfer", "" }

CalcCards ==
  { [id |-> 1, title |-> "Pending transfer", category |-> category, tags |-> tags,
     content |-> content, content_lang |-> "en", created_at |-> now] :
    category \in CalcCategories, tags \in CalcTags, content \in CalcContents,
    now \in Instants }

\* stores: the curated set, two cards of equal content, and no card
CalcTables ==
  { SeedRows(0, "2026-01-01T00:00:00"),
    <<[id |-> 1, title |-> "Pending transfer", category |-> "Transfers",
       tags |-> "pending,transfer,canada", content |-> "My transfer was pending for a week",
       content_lang |-> "en", created_at |-> "2026-01-01T00:00:00"],
      [id |-> 2, title |-> "Pending transfer again", category |-> "Transfer",
       tags |-> "pending,usa", content |-> "My transfer was pending for a week",
       content_lang |-> "en", created_at |-> "2026-01-01T00:00:00"]>>,
    <<>> }

\* the question, the region and the mode of a ranking
CalcRankings ==
  { <<q, region, filter>> :
      q \in {TransferQuestion, "monthly fees too high", "my transfer was pending for a week"},
      region \in {"ca", "us"}, filter \in BOOLEAN }

\* values of MIN_MATCH_SCORE, in hundredths
Thresholds == {0, 1, 1799, MIN_MATCH_SCORE, 1801, 4000, 12000, 12001}

\* card submissions: title, category, tags and content
CalcSubmissions ==
  { <<"Locked out", "Support", "support,login", content>> :
      content \in
        { \* two sentences in fewer than 120 characters
          "I was locked out. We called the bank and it worked.",
          "I was locked out. We called the bank and it worked",
          "I was locked out. It got fixed.",
          "Locked out! We called the bank and it worked",
          "I was locked out? We called",
          \* three sentences in fewer than 120 characters
          "I was locked out. We called the bank. It worked later.",
          "I was locked out. The bank. Nothing else",
          \* 120 characters and more
          FeesContent,
          \* links
          DeclinedContent,
          "I was locked out. We checked https://canada.ca/help and it worked. All good later.",
          "I was locked out. We checked http://Help.FTC.gov:8080/x and it worked. All good later.",
          "I was locked out. We checked https://evil.com?x=.canada.ca and it worked. All good later.",
          "I was locked out. We checked https://evil.com#.canada.ca and it worked. All good later.",
          "I was locked out. We checked https://canada.ca?x=1 and it worked. All good later.",
          "I was locked out. We checked https://canada.ca@evil.com/x and it worked. All good later.",
          "I was locked out. We checked https://notcanada.ca/x and it worked. All good later.",
          "See https://canada.ca/help and https://totally-random-site.example/x for more.",
          "See https://canada.ca/help for more.",
          "They asked for my otp code on https://totally-random-site.example/x" } }
  \cup { <<"Reset at the bank", "Password", "login,reset", FeesContent>> }

\* questions for the question gate
CalcAsked ==
  { "call 555-123-4567 now",
    "call 5551234567 now",
    "call 555.123 4567",
    "555 1234567",
    "call 555\t123-4567 now or bob@mail.com",
    "call 555-123-4567 now or bob@mail.com",
    \* not phone-shaped
    "call 555-123-45678 now",
    "call 1555-123-4567 now",
    "call 555--123-4567 now",
    "call 555_123_4567 now",
    "call x555-123-4567 now",
    "call 555-1234 now",
    "please write to bob@mail.com",
    TransferQuestion,
    \* phone-shaped, and caught by an earlier check
    "my id 12345678901 call 555-123-4567",
    "call 555-123-4567 see http://x.co",
    "kill 555-123-4567" }

\* texts for tokenize
CalcTokenized ==
  { "", "   ", "?! - a", "-", "a", "ab", "a b c", "Hello, World!", "I don't know",
    "abc123DEF", "  My  transfer\tis pending 24h  ", "e-transfer credit_history x",
    "a1_b2-c3 4 56", "x.yz.", TransferQuestion }

CalcInputs ==
  {[NoCalc EXCEPT !.fn = "cosine_sim", !.args = <<a, b>>] : a, b \in CalcCounters}
  \cup {[NoCalc EXCEPT !.fn = "tokenize", !.args = <<text>>] : text \in CalcTokenized}
  \cup {[NoCalc EXCEPT !.fn = "safety_check_question", !.args = <<q>>] : q \in CalcAsked}
  \cup {[NoCalc EXCEPT !.fn = "safety_check_experience", !.args = sub] :
          sub \in CalcSubmissions}
  \cup {[NoCalc EXCEPT !.fn = "score_experience", !.args = <<q, c>>] :
          q \in CalcQuestions, c \in CalcCards}
  \cup {[NoCalc EXCEPT !.fn = "get_top_matches", !.args = <<table>> \o r] :
          table \in CalcTables, r \in CalcRankings}

CalcInit ==
  /\ live = <<>>
  /\ liveSeq = 0
  /\ demo = <<>>
  /\ demoSeq = 0
  /\ restarts = 0
  /\ seedPc = "idle"
  /\ pc = "idle"
  /\ req = NoRequest
  /\ loc = NoLocals
  /\ resp = NoResponse
  /\ other = NoOther
  /\ page = NoPage
  /\ calc \in CalcInputs

ApplyCosine ==
  /\ calc.fn = "cosine_sim"
  /\ ~calc.applied
  /\ calc' = [calc EXCEPT !.applied = TRUE,
                          !.value = cosine_double(calc.args[1], calc.args[2])]
  /\ UNCHANGED <<storeVars, seedVars, pc, req, loc, resp, other, page>>

ApplyScore ==
  /\ calc.fn = "score_experience"
  /\ ~calc.applied
  /\ calc' = [calc EXCEPT !.applied = TRUE,
                          !.value = score_experience(calc.args[1], calc.args[2])]
  /\ UNCHANGED <<storeVars, seedVars, pc, req, loc, resp, other, page>>

\* score_experience called once more with the same question and card
ScoreAgain ==
  /\ calc.fn = "score_experience"
  /\ calc.applied
  /\ ~calc.again
  /\ calc' = [calc EXCEPT !.again = TRUE,
                          !.value = score_experience(calc.args[1], calc.args[2])]
  /\ UNCHANGED <<storeVars, seedVars, pc, req, loc, resp, other, page>>

\* get_top_matches on a store, for each value of MIN_MATCH_SCORE
ApplyTopMatches ==
  /\ calc.fn = "get_top_matches"
  /\ ~calc.applied
  /\ LET rows == select_rows(calc.args[1], calc.args[3], calc.args[4])
         scored == score_rows(calc.args[2], rows)
     IN  calc' = [calc EXCEPT !.applied = TRUE,
                              !.value = [m \in Thresholds |->
                                           top_matches_at(scored, m, MAX_MATCHES)]]
  /\ UNCHANGED <<storeVars, seedVars, pc, req, loc, resp, other, page>>

ApplyCardGate ==
  /\ calc.fn = "safety_check_experience"
  /\ ~calc.applied
  /\ calc' = [calc EXCEPT !.applied = TRUE,
                          !.value = safety_check_experience(calc.args[1], calc.args[2],
                                                            calc.args[3], calc.args[4])]
  /\ UNCHANGED <<storeVars, seedVars, pc, req, loc, resp, other, page>>

ApplyQuestionGate ==
  /\ calc.fn = "safety_check_question"
  /\ ~calc.applied
  /\ calc' = [calc EXCEPT !.applied = TRUE, !.value = safety_check_question(calc.args[1])]
  /\ UNCHANGED <<storeVars, seedVars, pc, req, loc, resp, other, page>>

ApplyTokenize ==
  /\ calc.fn = "tokenize"
  /\ ~calc.applied
  /\ calc' = [calc EXCEPT !.applied = TRUE, !.value = tokenize(calc.args[1])]
  /\ UNCHANGED <<storeVars, seedVars, pc, req, loc, resp, other, page>>

CalcNext ==
  \/ ApplyTokenize
  \/ ApplyCosine
  \/ ApplyScore
  \/ ScoreAgain
  \/ ApplyTopMatches
  \/ ApplyCardGate
  \/ ApplyQuestionGate

CalcSpec == CalcInit /\ [][CalcNext]_vars

\* cosine_sim was applied to the two vectors of calc.args
CosineApplied == calc.fn = "cosine_sim" /\ calc.applied

\* a vector that counts the tokens of a sequence: each count is at least one
FromTokens(counter) == \A i \in DOMAIN counter.counts : counter.counts[i] >= 1

\* two vectors with the same counts for the same terms
SameVector(a, b) ==
  /\ Range(a.keys) = Range(b.keys)
  /\ \A i \in DOMAIN a.keys : Get(b, a.keys[i]) = a.counts[i]

\* C18: for term-count vectors a and b built from token sequences,
\* cosine_sim(a, b) is at least 0 and at most 1, it equals cosine_sim(b, a),
\* and it is 1.0 when a and b are the same non-empty vector.
C18_CosineRange ==
  CosineApplied /\ FromTokens(calc.args[1]) /\ FromTokens(calc.args[2]) =>
    /\ DoubleLeq(ZeroDouble, calc.value)
    /\ DoubleLeq(calc.value, OneDouble)
    /\ calc.value = cosine_double(calc.args[2], calc.args[1])
    /\ Len(calc.args[1].keys) > 0 /\ SameVector(calc.args[1], calc.args[2]) =>
         calc.value = OneDouble

\* a vector with no term, or with no count above zero
NoNorm(counter) == Len(counter.keys) = 0 \/ SumSquares(counter) = 0

\* score_experience was applied to the question and the card of calc.args
ScoreApplied == calc.fn = "score_experience" /\ calc.applied

\* C19: cosine_sim returns exactly 0.0 when either vector is empty or has zero
\* norm, it never divides by zero, and a card whose content has no token gets
\* the text similarity 0 whatever the question.
C19_ZeroWhenEmpty ==
  /\ CosineApplied =>
       /\ calc.value # ZeroDivision
       /\ NoNorm(calc.args[1]) \/ NoNorm(calc.args[2]) => calc.value = ZeroDouble
  /\ ScoreApplied /\ tokenize(calc.args[2].content) = <<>> =>
       /\ calc.value.why[1].part = "text_similarity"
       /\ calc.value.why[1].value = 0

\* cosine_sim was given an empty vector and one with terms, and returned 0.0
C19_Witness ==
  /\ CosineApplied
  /\ Len(calc.args[1].keys) = 0
  /\ Len(calc.args[2].keys) > 0
  /\ calc.value = ZeroDouble

\* the places of the stored tags (trimmed, lowercased, split on commas) that
\* are tokens of the question
Overlap(question, tags) ==
  {i \in DOMAIN TagList(tags) : TagList(tags)[i] \in Range(tokenize(question))}

\* the entries of an explanation that report a tag overlap
TagEntries(why) == {i \in DOMAIN why : why[i].part = "tag_overlap"}

\* C20: score_experience adds no tag bonus when no stored tag is a token of
\* the question, and otherwise 3 for each such tag up to 15 and never more: six
\* tags that are all in the question add 15, not 18.
C20_TagBonus ==
  ScoreApplied =>
    LET question == calc.args[1]
        card == calc.args[2]
        n == Cardinality(Overlap(question, card.tags))
        bonus == IF n = 0 THEN 0 ELSE IF 3 * n < 15 THEN 3 * n ELSE 15
        sim == cosine_sim(Counter(tokenize(question)), Counter(tokenize(card.content)))
        category == IF Len(card.category) > 0
                       /\ Contains(str_lower(normalize(question)), str_lower(card.category))
                    THEN 500 ELSE 0
    IN  /\ n = 0 => TagEntries(calc.value.why) = {}
        /\ n > 0 => /\ Cardinality(TagEntries(calc.value.why)) = 1
                    /\ \A i \in TagEntries(calc.value.why) : calc.value.why[i].value = bonus
        /\ calc.value.score = RoundScaled(sim, 10000) + 100 * bonus + category

\* a card with six tags, all of them tokens of the question, got the bonus 15
C20_Witness ==
  /\ ScoreApplied
  /\ Cardinality(Overlap(calc.args[1], calc.args[2].tags)) = 6
  /\ \E i \in TagEntries(calc.value.why) : calc.value.why[i].value = 15

\* the places of text at which sub begins
PlacesOf(text, sub) ==
  {i \in 1..(Len(text) + 1) :
     i + Len(sub) - 1 <= Len(text)
     /\ \A k \in 1..Len(sub) : At(text, i + k - 1) = At(sub, k)}

\* the entries of an explanation that report a category match
CategoryEntries(why) == {i \in DOMAIN why : why[i].part = "category_match"}

\* what is left of a score, in hundredths, once the text similarity and the
\* reported tag bonus are taken from it
CategoryPart(question, card, scored) ==
  LET sim == cosine_sim(Counter(tokenize(question)), Counter(tokenize(card.content)))
      tagged == Sum([i \in DOMAIN scored.why |->
                      IF scored.why[i].part = "tag_overlap" THEN scored.why[i].value ELSE 0])
  IN  scored.score - RoundScaled(sim, 10000) - 100 * tagged

\* the places where the card's lowercased category begins in the normalized,
\* lowercased question
CategoryPlaces(question, card) ==
  PlacesOf(str_lower(normalize(question)), str_lower(card.category))

\* C21 as claimed: the category bonus of a question and a card is exactly 0 or
\* exactly 5; it is 5 when the card's lowercased category occurs in the
\* normalized lowercased question, however often, and 0 otherwise, and scoring
\* the pair again does not add it a second time.
C21_CategoryBonusLiteral ==
  ScoreApplied =>
    LET part == CategoryPart(calc.args[1], calc.args[2], calc.value)
        places == CategoryPlaces(calc.args[1], calc.args[2])
    IN  /\ part \in {0, 500}
        /\ part = 500 <=> places # {}

\* C21 amended: the category bonus of a question and a card is exactly 0 or
\* exactly 5; it is 5 when the card's lowercased category is not empty and
\* occurs in the normalized lowercased question, however often, and 0
\* otherwise (also for an empty category), and scoring the pair again does not
\* add it a second time: the explanation reports it once or not at all.
C21_CategoryBonus ==
  ScoreApplied =>
    LET part == CategoryPart(calc.args[1], calc.args[2], calc.value)
        places == CategoryPlaces(calc.args[1], calc.args[2])
        given == Len(calc.args[2].category) > 0 /\ places # {}
    IN  /\ part = IF given THEN 500 ELSE 0
        /\ Cardinality(CategoryEntries(calc.value.why)) = IF given THEN 1 ELSE 0
        /\ \A i \in CategoryEntries(calc.value.why) : calc.value.why[i].value = 5

\* a card whose category is three times in the question was scored twice and
\* has the bonus 5
C21_Witness ==
  /\ ScoreApplied
  /\ calc.again
  /\ Cardinality(CategoryPlaces(calc.args[1], calc.args[2])) = 3
  /\ Len(calc.args[2].category) > 0
  /\ CategoryPart(calc.args[1], calc.args[2], calc.value) = 500

\* get_top_matches was applied to the store, question, region and mode of
\* calc.args
TopMatchesApplied == calc.fn = "get_top_matches" /\ calc.applied

\* C23: for the same question and the same store and any two thresholds
\* m1 <= m2, the number of matches returned (after the cut to the limit) with
\* threshold m2 is never larger than with threshold m1.
C23_ThresholdMonotonic ==
  TopMatchesApplied =>
    /\ \A m1, m2 \in Thresholds :
         m1 <= m2 => Len(calc.value[m2]) <= Len(calc.value[m1])
    /\ calc.value[MIN_MATCH_SCORE] =
         get_top_matches(calc.args[1], calc.args[2], calc.args[3], calc.args[4], MAX_MATCHES)

\* a ranking that returns the full limit at a low threshold, fewer matches
\* at the threshold of the code and none at the highest
C23_Witness ==
  /\ TopMatchesApplied
  /\ Len(calc.value[0]) = MAX_MATCHES
  /\ Len(calc.value[MIN_MATCH_SCORE]) \in 1..(MAX_MATCHES - 1)
  /\ Len(calc.value[12001]) = 0

\* safety_check_experience was applied to the submission of calc.args
CardGateApplied == calc.fn = "safety_check_experience" /\ calc.applied

\* the sentences of a content: the maximal runs of characters other than
\* . ! ? that hold more than spaces, counted by their first characters
Sentences(c) ==
  Cardinality({i \in 1..Len(c) :
     /\ ~IsSentenceEnd(At(c, i))
     /\ (i = 1 \/ IsSentenceEnd(At(c, i - 1)))
     /\ \E k \in i..Len(c) :
          /\ ~IsSpace(At(c, k))
          /\ \A j \in i..k : ~IsSentenceEnd(At(c, j))})

\* C24: a card submission whose content is shorter than 120 characters and
\* has only 2 sentences, and which trips neither the banned-keyword nor the
\* URL check, is rejected with the reason low_structure_score (the minimum
\* structure score being 4).
C24_ShortTwoSentences ==
  CardGateApplied
  /\ Len(normalize(calc.args[4])) < 120
  /\ Sentences(normalize(calc.args[4])) = 2
  /\ calc.value.reason \notin {"banned_keywords", "disallowed_domain"}
  => calc.value = [ok |-> FALSE, reason |-> "low_structure_score"]

\* the first place from position from on where text has a character of class,
\* or the place after the end of text
FirstOf(text, from, class) ==
  LET at == {i \in from..Len(text) : At(text, i) \in class}
  IN  IF at = {} THEN Len(text) + 1 ELSE CHOOSE a \in at : \A b \in at : a <= b

\* the host of a URL: what stands between the scheme and the first / ? or #,
\* without the user information before an @ and without the port, in lower
\* case
UrlHost(url) ==
  LET n == IF str_lower(Slice(url, 1, 8)) = "https://" THEN 8 ELSE 7
      authority == SubSeq(url, n + 1, FirstOf(url, n + 1, {"/", "?", "#"}) - 1)
      ats == {i \in 1..Len(authority) : At(authority, i) = "@"}
      hostport == IF ats = {} THEN authority
                  ELSE SubSeq(authority, (CHOOSE a \in ats : \A b \in ats : a >= b) + 1,
                              Len(authority))
  IN  str_lower(SubSeq(hostport, 1, FirstOf(hostport, 1, {":"}) - 1))

\* the host is an allowlisted domain or a subdomain of one
HostAllowed(host) ==
  \E i \in DOMAIN ALLOWED_DOMAINS :
    \/ host = ALLOWED_DOMAINS[i]
    \/ /\ Len(host) > Len(ALLOWED_DOMAINS[i]) + 1
       /\ SubSeq(host, Len(host) - Len(ALLOWED_DOMAINS[i]), Len(host))
            = "." \o ALLOWED_DOMAINS[i]

\* C25: a card submission without banned keywords is rejected with the
\* reason disallowed_domain whenever its content has at least one URL whose
\* host is neither an allowlisted domain nor a subdomain of one, whatever its
\* structure score; a URL whose host is an allowlisted domain or ends with
\* "." and an allowlisted domain never causes this rejection.
C25_DisallowedDomain ==
  CardGateApplied /\ calc.value.reason # "banned_keywords" =>
    LET urls == extract_urls(calc.args[4])
    IN  calc.value.reason = "disallowed_domain"
          <=> \E i \in DOMAIN urls : ~HostAllowed(UrlHost(urls[i]))

\* safety_check_question was applied to the question of calc.args
QuestionGateApplied == calc.fn = "safety_check_question" /\ calc.applied

\* the text from position i to position j is 3 digits, 3 digits and 4 digits,
\* with at most one separator after each of the first two groups
PhoneBetween(q, i, j) ==
  LET n == j - i + 1
      seps == {k \in 1..n : At(q, i + k - 1) \notin Digits}
  IN  /\ seps \in {{}, {4}, {7}, {4, 8}}
      /\ n - Cardinality(seps) = 10
      /\ \A k \in seps : At(q, i + k - 1) \in {"-", "."} \/ IsSpace(At(q, i + k - 1))

\* a phone-shaped part that begins and ends at a word boundary: no word
\* character stands right before or right after it
PhoneShaped(q) ==
  \E i \in 1..Len(q) : \E j \in i..Len(q) :
    /\ PhoneBetween(q, i, j)
    /\ (i = 1 \/ ~IsWordChar(At(q, i - 1)))
    /\ (j = Len(q) \/ ~IsWordChar(At(q, j + 1)))

\* a run of exactly 11 digits between two word boundaries
ElevenDigits(q) ==
  \E i \in 1..(Len(q) - 10) :
    /\ \A k \in i..(i + 10) : At(q, k) \in Digits
    /\ (i = 1 \/ ~IsWordChar(At(q, i - 1)))
    /\ (i + 10 = Len(q) \/ ~IsWordChar(At(q, i + 11)))

\* C26: a question with a phone-shaped pattern (3 digits, 3 digits, 4
\* digits, each group optionally separated by "-", "." or whitespace, between
\* word boundaries) and with no banned keyword, no URL and no 11-digit run is
\* rejected by the question gate with the reason possible_phone, as is
\* "call 555-123-4567 now".
C26_PossiblePhone ==
  QuestionGateApplied =>
    /\ PhoneShaped(calc.args[1])
       /\ ~contains_banned_keywords(calc.args[1])
       /\ extract_urls(calc.args[1]) = <<>>
       /\ ~ElevenDigits(calc.args[1])
       => calc.value = [ok |-> FALSE, reason |-> "possible_phone"]
    /\ calc.args[1] = "call 555-123-4567 now" => calc.value.reason = "possible_phone"

\* a question with a phone number and an e-mail address was rejected as a
\* possible phone number
C26_Witness ==
  /\ QuestionGateApplied
  /\ PhoneShaped(calc.args[1])
  /\ HasEmail(calc.args[1])
  /\ calc.value = [ok |-> FALSE, reason |-> "possible_phone"]

\* tokenize was applied to the text of calc.args
TokenizeApplied == calc.fn = "tokenize" /\ calc.applied

\* the maximal runs of the characters a-z and 0-9 in a text that are at
\* least 2 long, each as its first and last position
LongRuns(low) ==
  {r \in (1..Len(low)) \X (1..Len(low)) :
     /\ r[2] >= r[1] + 1
     /\ \A k \in r[1]..r[2] : At(low, k) \in LowerLetters \cup Digits
     /\ (r[1] = 1 \/ At(low, r[1] - 1) \notin LowerLetters \cup Digits)
     /\ (r[2] = Len(low) \/ At(low, r[2] + 1) \notin LowerLetters \cup Digits)}

\* C27: tokenize returns, in order of occurrence, exactly the maximal runs
\* of characters a-z and 0-9 of the lowercased text that are at least 2 long:
\* every token is lowercase alphanumeric and at least 2 long, every other
\* character separates and is dropped, and a text that is empty or made of
\* separators gives the empty sequence.
C27_Tokenize ==
  TokenizeApplied =>
    LET low == str_lower(calc.args[1])
        runs == LongRuns(low)
        Before(r) == Cardinality({p \in runs : p[1] < r[1]})
    IN  /\ Len(calc.value) = Cardinality(runs)
        /\ \A r \in runs : calc.value[Before(r) + 1] = SubSeq(low, r[1], r[2])
        /\ \A i \in DOMAIN calc.value :
             /\ Len(calc.value[i]) >= 2
             /\ \A k \in 1..Len(calc.value[i]) :
                  At(calc.value[i], k) \in LowerLetters \cup Digits
        /\ (\A k \in 1..Len(low) : At(low, k) \notin LowerLetters \cup Digits)
             => calc.value = <<>>

\* a text with capitals, runs of one character and separators of several
\* kinds gave its four long runs in order
C27_Witness ==
  /\ TokenizeApplied
  /\ calc.args[1] = "a1_b2-c3 4 56"
  /\ calc.value = <<"a1", "b2", "c3", "56">>

\* the request being handled has read the demo store
ReadDemo == pc = "done" /\ DEMO_DB_PATH \in loc.read

PartValue(why, part) ==
  Sum([i \in DOMAIN why |-> IF why[i].part = part THEN why[i].value ELSE 0])

\* C29: every score of score_experience lies between 0 and 120 inclusive, made
\* of at most 100 from the text similarity, at most 15 from the tag overlap
\* and at most 5 from the category match, so that every match returned for a
\* question has a score from 18 to 120.
C29_ScoreRange ==
  /\ ScoreApplied =>
       LET tagged == PartValue(calc.value.why, "tag_overlap")
           category == PartValue(calc.value.why, "category_match")
           text == calc.value.score - 100 * tagged - 100 * category
       IN  /\ calc.value.score >= 0 /\ calc.value.score <= 12000
           /\ text >= 0 /\ text <= 10000
           /\ tagged >= 0 /\ tagged <= 15
           /\ category >= 0 /\ category <= 5
  /\ TopMatchesApplied =>
       \A i \in DOMAIN calc.value[MIN_MATCH_SCORE] :
         /\ calc.value[MIN_MATCH_SCORE][i].score >= 1800
         /\ calc.value[MIN_MATCH_SCORE][i].score <= 12000

\* a card got the score 120: its content has the terms of the question, five
\* of its tags are in the question and so is its category
C29_Witness ==
  /\ ScoreApplied
  /\ calc.value.score = 12000
  /\ PartValue(calc.value.why, "tag_overlap") = 15
  /\ PartValue(calc.value.why, "category_match") = 5

\* a tag made of the characters a-z and 0-9 only, at least 2 of them
WellShaped(tg) ==
  /\ Len(tg) >= 2
  /\ \A k \in 1..Len(tg) : At(tg, k) \in LowerLetters \cup Digits

\* C30: a stored tag can add to the tag bonus only if, trimmed and
\* lowercased, it is made of characters a-z and 0-9 only and is at least 2
\* long: a tag with "_", "-", a space or another character (e-transfer,
\* credit_history) or of one character adds nothing for any question.
C30_TagShape ==
  ScoreApplied =>
    LET tags == TagList(calc.args[2].tags)
        good == {i \in DOMAIN tags : WellShaped(tags[i])}
        entries == TagEntries(calc.value.why)
    IN  /\ good = {} => entries = {}
        /\ \A e \in entries :
             /\ calc.value.why[e].value <= 3 * Cardinality(good)
             /\ \A k \in DOMAIN calc.value.why[e].shown :
                  WellShaped(calc.value.why[e].shown[k])

\* a card with the tags e-transfer, credit_history, x, wire transfer and
\* pending was scored for a question that holds all five as written: only
\* pending added to the bonus
C30_Witness ==
  /\ ScoreApplied
  /\ LET tags == TagList(calc.args[2].tags)
     IN  /\ Len(tags) = 5
         /\ Cardinality({i \in DOMAIN tags : WellShaped(tags[i])}) = 1
         /\ \A i \in DOMAIN tags : Contains(str_lower(calc.args[1]), tags[i])
  /\ \E e \in TagEntries(calc.value.why) :
       calc.value.why[e].value = 3 /\ calc.value.why[e].shown = <<"pending">>

====
